---------------------------- MODULE Spec2Model ----------------------------
(***************************************************************************)
(* The RING API client: the Settings wire mapper (settings.rs), the        *)
(* compact-string codecs of NodeId, Interaction and Atom, the angle and    *)
(* optional node id readers of an edge (requests/result.rs), and the       *)
(* multipart form encoder (multipart.rs).                                  *)
(*                                                                         *)
(* Text that the code parses or splits is a sequence of one-character      *)
(* strings, so "all" is <<"a","l","l">>.  Map keys, which the code only    *)
(* compares for equality, are plain strings.  A Result is <<"Ok", v>> or   *)
(* <<"Err", kind>>.                                                        *)
(***************************************************************************)
EXTENDS Integers, Sequences, FiniteSets, TLC

VARIABLES job, pc, wire, out, ser, calls

vars == <<job, pc, wire, out, ser, calls>>

None == <<"None">>
Ok(v) == <<"Ok", v>>
Err(kind) == <<"Err", kind>>
IsOk(r) == r[1] = "Ok"
IsErr(r) == r[1] = "Err"

(***************************************************************************)
(* Text helpers.                                                           *)
(***************************************************************************)
DigitChars == <<"0", "1", "2", "3", "4", "5", "6", "7", "8", "9">>

IsDigit(c) == \E i \in 1..10 : DigitChars[i] = c

DigitValue(c) == (CHOOSE i \in 1..10 : DigitChars[i] = c) - 1

AllDigits(s) == \A i \in 1..Len(s) : IsDigit(s[i])

RECURSIVE Digits(_)
\* Decimal text of a natural number, as the integer Display impls write it.
Digits(n) ==
    IF n < 10 THEN <<DigitChars[n + 1]>>
    ELSE Digits(n \div 10) \o <<DigitChars[(n % 10) + 1]>>

RECURSIVE DigitsValue(_)
\* Value of a non-empty run of decimal digits.
DigitsValue(s) ==
    IF Len(s) = 1 THEN DigitValue(s[1])
    ELSE DigitsValue(SubSeq(s, 1, Len(s) - 1)) * 10 + DigitValue(s[Len(s)])

RECURSIVE Split(_, _)
\* str::split(char): the fields between the delimiters, always at least one
\* field (the empty text gives one empty field).
Split(s, d) ==
    IF \A i \in 1..Len(s) : s[i] # d THEN <<s>>
    ELSE LET k == CHOOSE i \in 1..Len(s) :
                      s[i] = d /\ \A j \in 1..(i - 1) : s[j] # d
         IN  <<SubSeq(s, 1, k - 1)>> \o Split(SubSeq(s, k + 1, Len(s)), d)

RECURSIVE Join(_, _)
\* The fields written one after the other with sep between them.
Join(fields, sep) ==
    IF Len(fields) = 0 THEN <<>>
    ELSE IF Len(fields) = 1 THEN fields[1]
    ELSE fields[1] \o sep \o Join(Tail(fields), sep)

CountOf(s, c) == Cardinality({i \in 1..Len(s) : s[i] = c})

\* All sequences over S of length lo..hi.
SeqsOf(S, lo, hi) == UNION {[1..n -> S] : n \in lo..hi}

(***************************************************************************)
(* Standard-library conversions used by the codecs.                        *)
(***************************************************************************)
\* usize::to_string
UsizeToString(n) == Digits(n)

\* <usize as FromStr>::from_str: an optional '+', then one or more digits.
\* The texts of the model are short, so the value never overflows.
ParseUsize(s) ==
    IF Len(s) = 0 THEN Err("ParseInt")
    ELSE LET body == IF s[1] = "+" THEN Tail(s) ELSE s
         IN  IF Len(body) = 0 \/ ~AllDigits(body) THEN Err("ParseInt")
             ELSE Ok(DigitsValue(body))

\* isize as Display
IsizeToString(n) == IF n < 0 THEN <<"-">> \o Digits(0 - n) ELSE Digits(n)

\* <isize as FromStr>::from_str: an optional '+' or '-', then digits.
ParseIsize(s) ==
    IF Len(s) = 0 THEN Err("ParseInt")
    ELSE LET signed == s[1] \in {"+", "-"}
             body == IF signed THEN Tail(s) ELSE s
         IN  IF Len(body) = 0 \/ ~AllDigits(body) THEN Err("ParseInt")
             ELSE IF s[1] = "-" THEN Ok(0 - DigitsValue(body))
             ELSE Ok(DigitsValue(body))

\* A to_string that capitalises, as some languages spell booleans.
BoolToStringCapital(b) ==
    IF b THEN <<"T", "r", "u", "e">> ELSE <<"F", "a", "l", "s", "e">>

\* bool::to_string
BoolToString(b) == IF b THEN <<"t", "r", "u", "e">> ELSE <<"f", "a", "l", "s", "e">>

\* <bool as FromStr>::from_str: exactly "true" or "false".
ParseBool(s) ==
    IF s = <<"t", "r", "u", "e">> THEN Ok(TRUE)
    ELSE IF s = <<"f", "a", "l", "s", "e">> THEN Ok(FALSE)
    ELSE Err("ParseBool")

\* <char as FromStr>::from_str: exactly one character.
ParseChar(s) == IF Len(s) = 1 THEN Ok(s[1]) ELSE Err("ParseChar")

(***************************************************************************)
(* settings.rs: the Settings record and its parts.                         *)
(* A Chain is <<"All">> or <<"Id", c>>.  The f32 thresholds are carried in *)
(* tenths (3.5 is 35), which is exact for every value the code sets.       *)
(***************************************************************************)
ChainAll == <<"All">>
ChainId(c) == <<"Id", c>>

NetworkPolicy == {"Closest", "Lollipop", "CAlpha", "CBeta"}

InteractionType == {"All", "Multiple", "MostEnergetic", "NoSpecific"}

ThresholdFields == <<"hbond", "vdw", "ionic", "pipi", "pication", "disulphide">>

ThresholdsStrict ==
    [hbond |-> 35, vdw |-> 5, ionic |-> 40, pipi |-> 65, pication |-> 50,
     disulphide |-> 25]

ThresholdsRelaxed ==
    [hbond |-> 55, vdw |-> 8, ionic |-> 50, pipi |-> 70, pication |-> 70,
     disulphide |-> 30]

ThresholdsDefault == ThresholdsStrict

SettingsDefault ==
    [chain |-> ChainAll,
     network_policy |-> "Closest",
     interactions |-> "Multiple",
     thresholds |-> ThresholdsDefault,
     sequence_separation |-> 3,
     skip_hetero |-> FALSE,
     skip_water |-> TRUE,
     skip_energy |-> TRUE,
     perform_msa |-> FALSE]

(***************************************************************************)
(* Wire texts.                                                             *)
(***************************************************************************)
StrAll == <<"a", "l", "l">>
StrTrue == <<"t", "r", "u", "e">>
StrFalse == <<"f", "a", "l", "s", "e">>
Quote == "\""

\* The serde names of the Thresholds fields, as text.
ThresholdFieldText(f) ==
    CASE f = "hbond" -> <<"h", "b", "o", "n", "d">>
      [] f = "vdw" -> <<"v", "d", "w">>
      [] f = "ionic" -> <<"i", "o", "n", "i", "c">>
      [] f = "pipi" -> <<"p", "i", "p", "i">>
      [] f = "pication" -> <<"p", "i", "c", "a", "t", "i", "o", "n">>
      [] f = "disulphide" -> <<"d", "i", "s", "u", "l", "p", "h", "i", "d", "e">>

\* #[serde(rename = ...)] of NetworkPolicy.
NetworkPolicyToken(p) ==
    CASE p = "Closest" -> <<"c", "l", "o", "s", "e", "s", "t">>
      [] p = "Lollipop" -> <<"l", "o", "l", "l", "i", "p", "o", "p">>
      [] p = "CAlpha" -> <<"c", "a">>
      [] p = "CBeta" -> <<"c", "b">>

\* Derived Deserialize of NetworkPolicy: the variant with that token, or an
\* unknown-variant error.
NetworkPolicyDeserialize(s) ==
    IF \E p \in NetworkPolicy : NetworkPolicyToken(p) = s
    THEN Ok(CHOOSE p \in NetworkPolicy : NetworkPolicyToken(p) = s)
    ELSE Err("custom")

\* impl Serialize for Chain
ChainSerialize(c) == IF c = ChainAll THEN StrAll ELSE <<c[2]>>

\* A visitor that keeps the first letter of a multi-letter text.
ChainVisitStrFirstChar(v) ==
    IF v = StrAll THEN Ok(ChainAll)
    ELSE IF Len(v) >= 1 THEN Ok(ChainId(v[1]))
    ELSE Err("custom")

\* ChainVisitor::visit_str
ChainVisitStr(v) ==
    IF v = StrAll THEN Ok(ChainAll)
    ELSE IF Len(v) = 1 THEN Ok(ChainId(v[1]))
    ELSE Err("custom")

(***************************************************************************)
(* The thresholds as JSON text (serde_json::to_string / from_str of the    *)
(* derived impls of Thresholds).  The reader below covers the texts of the *)
(* model: one object of "name":value members without white space, a value  *)
(* being a decimal number or a quoted string.                              *)
(***************************************************************************)
\* An f32 as serde_json writes it: 3.5, 4.0, 0.8.
F32ToJson(t) == Digits(t \div 10) \o <<".">> \o Digits(t % 10)

\* A JSON number read as f32: digits, then optionally '.' and digits.
JsonToF32(s) ==
    LET parts == Split(s, ".")
        whole == parts[1]
        wellFormed ==
            /\ Len(parts) \in {1, 2}
            /\ Len(whole) > 0 /\ AllDigits(whole)
            /\ (Len(whole) > 1 => whole[1] # "0")
            /\ (Len(parts) = 2 => Len(parts[2]) > 0 /\ AllDigits(parts[2]))
    IN  IF ~wellFormed THEN Err("custom")
        ELSE IF Len(parts) = 1 THEN Ok(DigitsValue(whole) * 10)
        ELSE Ok(DigitsValue(whole) * 10 + DigitValue(parts[2][1]))

RECURSIVE ThresholdMembers(_, _)
ThresholdMembers(t, fs) ==
    IF Len(fs) = 0 THEN <<>>
    ELSE <<Quote>> \o ThresholdFieldText(fs[1]) \o <<Quote, ":">>
             \o F32ToJson(t[fs[1]])
             \o (IF Len(fs) > 1 THEN <<",">> ELSE <<>>)
             \o ThresholdMembers(t, Tail(fs))

\* serde_json::to_string(&self.thresholds)
ThresholdsToJson(t) == <<"{">> \o ThresholdMembers(t, ThresholdFields) \o <<"}">>

IsQuoted(s) ==
    /\ Len(s) >= 2
    /\ s[1] = Quote /\ s[Len(s)] = Quote
    /\ \A i \in 2..(Len(s) - 1) : s[i] # Quote

RECURSIVE ThresholdsVisit(_, _, _)
\* The derived visitor of Thresholds (#[serde(default)]): members in text
\* order; a repeated field is an error, an unknown field is skipped.
ThresholdsVisit(t, seen, members) ==
    IF Len(members) = 0 THEN Ok(t)
    ELSE LET kv == Split(members[1], ":")
         IN  IF Len(kv) # 2 \/ ~IsQuoted(kv[1]) THEN Err("custom")
             ELSE LET name == SubSeq(kv[1], 2, Len(kv[1]) - 1)
                      known == {i \in 1..Len(ThresholdFields) :
                                   ThresholdFieldText(ThresholdFields[i]) = name}
                  IN  IF known = {}
                      THEN IF IsQuoted(kv[2]) \/ IsOk(JsonToF32(kv[2]))
                           THEN ThresholdsVisit(t, seen, Tail(members))
                           ELSE Err("custom")
                      ELSE LET f == ThresholdFields[CHOOSE i \in known : TRUE]
                               v == JsonToF32(kv[2])
                           IN  IF f \in seen \/ IsErr(v) THEN Err("custom")
                               ELSE ThresholdsVisit([t EXCEPT ![f] = v[2]],
                                                    seen \cup {f}, Tail(members))

\* serde_json::from_str::<Thresholds>(&value_str)
ThresholdsFromJson(s) ==
    IF Len(s) < 2 \/ s[1] # "{" \/ s[Len(s)] # "}" THEN Err("custom")
    ELSE LET body == SubSeq(s, 2, Len(s) - 1)
         IN  IF Len(body) = 0 THEN Ok(ThresholdsDefault)
             ELSE ThresholdsVisit(ThresholdsDefault, {}, Split(body, ","))

(***************************************************************************)
(* impl Serialize for Settings: the entries handed to serialize_entry, in  *)
(* call order.  An entry is <<key, value text>>.                           *)
(***************************************************************************)
\* msa written like the other booleans, present whether set or not.
SerializeMsaAsBool(s) == <<<<"msa", BoolToString(s.perform_msa)>>>>

SerializeMsa(s) ==
    IF s.perform_msa THEN <<<<"msa", StrTrue>>>> ELSE <<>>

\* The keys of All and MostEnergetic exchanged.
SerializeInteractionsSwapped(s) ==
    CASE s.interactions = "All" -> <<<<"onlyFirstEdge", StrTrue>>>>
      [] s.interactions = "Multiple" -> <<>>
      [] s.interactions = "MostEnergetic" -> <<<<"allEdges", StrTrue>>>>
      [] s.interactions = "NoSpecific" -> <<<<"nospecific", StrTrue>>>>

SerializeInteractions(s) ==
    CASE s.interactions = "All" -> <<<<"allEdges", StrTrue>>>>
      [] s.interactions = "Multiple" -> <<>>
      [] s.interactions = "MostEnergetic" -> <<<<"onlyFirstEdge", StrTrue>>>>
      [] s.interactions = "NoSpecific" -> <<<<"nospecific", StrTrue>>>>

SerializeFixed(s) ==
    << <<"ringmd", StrFalse>>,
       <<"chain", ChainSerialize(s.chain)>>,
       <<"networkPolicy", NetworkPolicyToken(s.network_policy)>>,
       <<"seqSeparation", UsizeToString(s.sequence_separation)>>,
       <<"thresholds", ThresholdsToJson(s.thresholds)>>,
       <<"nohetero", BoolToString(s.skip_hetero)>>,
       <<"nowater", BoolToString(s.skip_water)>>,
       <<"noenergy", BoolToString(s.skip_energy)>> >>

\* The interaction flag written before msa.
SettingsSerializeFlagFirst(s) ==
    SerializeFixed(s) \o SerializeInteractions(s) \o SerializeMsa(s)

SettingsSerialize(s) ==
    SerializeFixed(s) \o SerializeMsa(s) \o SerializeInteractions(s)

(***************************************************************************)
(* impl Deserialize for Settings: SettingsVisitor::visit_map.              *)
(***************************************************************************)
\* parse_next_value::<T>: FromStr of T ("usize" or "bool") on the value
\* text, its error turned into the map's error.
ParseNextValue(T, value_str) ==
    LET r == IF T = "usize" THEN ParseUsize(value_str) ELSE ParseBool(value_str)
    IN  IF IsOk(r) THEN r ELSE Err("custom")

\* A match on the key that reads the value of a flag key as a boolean.
VisitEntryFlagValue(s, key, value) ==
    CASE key = "chain" ->
            LET r == ChainVisitStr(value)
            IN  IF IsOk(r) THEN Ok([s EXCEPT !.chain = r[2]]) ELSE r
      [] key = "networkPolicy" ->
            LET r == NetworkPolicyDeserialize(value)
            IN  IF IsOk(r) THEN Ok([s EXCEPT !.network_policy = r[2]]) ELSE r
      [] key = "allEdges" ->
            Ok(IF value = StrTrue THEN [s EXCEPT !.interactions = "All"] ELSE s)
      [] key = "onlyFirstEdge" ->
            Ok(IF value = StrTrue THEN [s EXCEPT !.interactions = "MostEnergetic"] ELSE s)
      [] key = "nospecific" ->
            Ok(IF value = StrTrue THEN [s EXCEPT !.interactions = "NoSpecific"] ELSE s)
      [] key = "seqSeparation" ->
            LET r == ParseNextValue("usize", value)
            IN  IF IsOk(r) THEN Ok([s EXCEPT !.sequence_separation = r[2]]) ELSE r
      [] key = "thresholds" ->
            LET r == ThresholdsFromJson(value)
            IN  IF IsOk(r) THEN Ok([s EXCEPT !.thresholds = r[2]]) ELSE r
      [] key = "nohetero" ->
            LET r == ParseNextValue("bool", value)
            IN  IF IsOk(r) THEN Ok([s EXCEPT !.skip_hetero = r[2]]) ELSE r
      [] key = "nowater" ->
            LET r == ParseNextValue("bool", value)
            IN  IF IsOk(r) THEN Ok([s EXCEPT !.skip_water = r[2]]) ELSE r
      [] key = "noenergy" ->
            LET r == ParseNextValue("bool", value)
            IN  IF IsOk(r) THEN Ok([s EXCEPT !.skip_energy = r[2]]) ELSE r
      [] key = "msa" -> Ok([s EXCEPT !.perform_msa = (value = StrTrue)])
      [] OTHER -> Ok(s)

\* One turn of the while-let loop: the match on the key.
VisitEntry(s, key, value) ==
    CASE key = "chain" ->
            LET r == ChainVisitStr(value)
            IN  IF IsOk(r) THEN Ok([s EXCEPT !.chain = r[2]]) ELSE r
      [] key = "networkPolicy" ->
            LET r == NetworkPolicyDeserialize(value)
            IN  IF IsOk(r) THEN Ok([s EXCEPT !.network_policy = r[2]]) ELSE r
      [] key = "allEdges" -> Ok([s EXCEPT !.interactions = "All"])
      [] key = "onlyFirstEdge" -> Ok([s EXCEPT !.interactions = "MostEnergetic"])
      [] key = "nospecific" -> Ok([s EXCEPT !.interactions = "NoSpecific"])
      [] key = "seqSeparation" ->
            LET r == ParseNextValue("usize", value)
            IN  IF IsOk(r) THEN Ok([s EXCEPT !.sequence_separation = r[2]]) ELSE r
      [] key = "thresholds" ->
            LET r == ThresholdsFromJson(value)
            IN  IF IsOk(r) THEN Ok([s EXCEPT !.thresholds = r[2]]) ELSE r
      [] key = "nohetero" ->
            LET r == ParseNextValue("bool", value)
            IN  IF IsOk(r) THEN Ok([s EXCEPT !.skip_hetero = r[2]]) ELSE r
      [] key = "nowater" ->
            LET r == ParseNextValue("bool", value)
            IN  IF IsOk(r) THEN Ok([s EXCEPT !.skip_water = r[2]]) ELSE r
      [] key = "noenergy" ->
            LET r == ParseNextValue("bool", value)
            IN  IF IsOk(r) THEN Ok([s EXCEPT !.skip_energy = r[2]]) ELSE r
      [] key = "msa" -> Ok([s EXCEPT !.perform_msa = TRUE])
      [] OTHER -> Ok(s)

RECURSIVE VisitMap(_, _)
\* The loop over the entries of the map, in map order; the first failing
\* entry ends it with that error.
VisitMap(s, m) ==
    IF Len(m) = 0 THEN Ok(s)
    ELSE LET r == VisitEntry(s, m[1][1], m[1][2])
         IN  IF IsOk(r) THEN VisitMap(r[2], Tail(m)) ELSE r

\* A visitor that rejects a map holding a key it does not know.
SettingsDeserializeDenyUnknown(m) ==
    IF \E i \in 1..Len(m) :
           m[i][1] \notin {"chain", "networkPolicy", "seqSeparation", "thresholds",
                           "nohetero", "nowater", "noenergy", "msa", "allEdges",
                           "onlyFirstEdge", "nospecific"}
    THEN Err("custom")
    ELSE VisitMap(SettingsDefault, m)

SettingsDeserialize(m) == VisitMap(SettingsDefault, m)

(***************************************************************************)
(* The inputs of the Settings mapper.                                      *)
(***************************************************************************)
MaxSeqSep == 10
MaxEntries == 3

ChainChars == {"A", "a", ":"}

Chains == {ChainAll} \cup {ChainId(c) : c \in ChainChars}

SettingsValues ==
    [chain : Chains,
     network_policy : NetworkPolicy,
     interactions : InteractionType,
     thresholds : {ThresholdsStrict, ThresholdsRelaxed},
     sequence_separation : 0..MaxSeqSep,
     skip_hetero : BOOLEAN,
     skip_water : BOOLEAN,
     skip_energy : BOOLEAN,
     perform_msa : BOOLEAN]

\* Entries a received map may hold: well-formed and malformed values of the
\* recognized keys, flag keys with assorted values, and unknown keys.
WireEntries ==
    { <<"chain", StrAll>>, <<"chain", <<"B">>>>, <<"chain", <<"A", "B">>>>, <<"chain", <<>> >>,
      <<"networkPolicy", <<"c", "b">>>>, <<"networkPolicy", <<"C", "B">>>>,
      <<"seqSeparation", <<"4", "2">>>>, <<"seqSeparation", <<"4", "x">>>>,
      <<"thresholds", ThresholdsToJson(ThresholdsRelaxed)>>,
      <<"thresholds", <<"{", "\"", "h", "b", "o", "n", "d", "\"", ":", "5", ".", "5", ",", "\"", "z", "z", "\"", ":", "\"", "q", "\"", "}">>>>,
      <<"thresholds", <<"s", "t", "r", "i", "c", "t">>>>,
      <<"nohetero", StrTrue>>, <<"nohetero", <<"y", "e", "s">>>>,
      <<"nowater", StrFalse>>,
      <<"msa", StrFalse>>,
      <<"allEdges", StrTrue>>, <<"onlyFirstEdge", <<>> >>, <<"nospecific", StrFalse>>,
      <<"ringmd", StrFalse>>, <<"fileName", <<"x", ".", "p", "d", "b">>>> }

WireMaps == SeqsOf(WireEntries, 0, MaxEntries)

SettingsJobs ==
    {<<"encode", s>> : s \in SettingsValues} \cup {<<"decode", m>> : m \in WireMaps}

(***************************************************************************)
(* The Settings mapper as a state machine: a Settings value is serialized  *)
(* to the wire, or a map arrives from the service; the map on the wire is  *)
(* then deserialized.                                                      *)
(***************************************************************************)
InitSettings ==
    /\ job \in SettingsJobs
    /\ pc = "start"
    /\ wire = None
    /\ out = None
    /\ ser = None
    /\ calls = <<>>

ToWire ==
    /\ pc = "start" /\ job[1] = "encode"
    /\ wire' = SettingsSerialize(job[2])
    /\ pc' = "wire"
    /\ UNCHANGED <<job, out, ser, calls>>

WireReceived ==
    /\ pc = "start" /\ job[1] = "decode"
    /\ wire' = job[2]
    /\ pc' = "wire"
    /\ UNCHANGED <<job, out, ser, calls>>

FromWire ==
    /\ pc = "wire"
    /\ out' = SettingsDeserialize(wire)
    /\ pc' = "done"
    /\ UNCHANGED <<job, wire, ser, calls>>

NextSettings == ToWire \/ WireReceived \/ FromWire

SpecSettings == InitSettings /\ [][NextSettings]_vars

(***************************************************************************)
(* Properties of the Settings mapper.                                      *)
(***************************************************************************)
KeysOf(m) == [i \in 1..Len(m) |-> m[i][1]]

HasKey(m, k) == \E i \in 1..Len(m) : m[i][1] = k

\* The values a map holds under key k.
ValuesOf(m, k) == {m[i][2] : i \in {j \in 1..Len(m) : m[j][1] = k}}

Encoded == job[1] = "encode" /\ pc \in {"wire", "done"}

RecognizedKeys ==
    {"chain", "networkPolicy", "seqSeparation", "thresholds", "nohetero",
     "nowater", "noenergy", "msa", "allEdges", "onlyFirstEdge", "nospecific"}

InteractionKeys == {"allEdges", "onlyFirstEdge", "nospecific"}

\* C1: every Settings value that is serialized and then deserialized comes
\* back equal to itself.
SettingsRoundTrip ==
    (pc = "done" /\ job[1] = "encode") => out = Ok(job[2])

SettingsRoundTripWitness ==
    /\ pc = "done" /\ job[1] = "encode"
    /\ job[2].chain = ChainId("A")
    /\ job[2].interactions = "NoSpecific"
    /\ job[2].thresholds = ThresholdsRelaxed
    /\ job[2].sequence_separation = MaxSeqSep
    /\ job[2].perform_msa /\ job[2].skip_hetero /\ ~job[2].skip_water
    /\ out = Ok(job[2])

WellFormedValue(key, value) ==
    CASE key = "chain" -> value = StrAll \/ Len(value) = 1
      [] key = "networkPolicy" ->
            value \in {<<"c", "l", "o", "s", "e", "s", "t">>, <<"l", "o", "l", "l", "i", "p", "o", "p">>, <<"c", "a">>, <<"c", "b">>}
      [] key = "seqSeparation" ->
            \E n \in 0..99 : value \in {Digits(n), <<"+">> \o Digits(n)}
      [] key = "thresholds" ->
            value \in {ThresholdsToJson(ThresholdsStrict),
                       ThresholdsToJson(ThresholdsRelaxed),
                       <<"{", "\"", "h", "b", "o", "n", "d", "\"", ":", "5", ".", "5", ",", "\"", "z", "z", "\"", ":", "\"", "q", "\"", "}">>}
      [] key \in {"nohetero", "nowater", "noenergy"} ->
            value \in {StrTrue, StrFalse}
      [] OTHER -> TRUE

OnlyRecognized(m) == SelectSeq(m, LAMBDA e : e[1] \in RecognizedKeys)

FromWireIgnoresUnknownKeys ==
    pc = "done" =>
        /\ out = SettingsDeserialize(OnlyRecognized(wire))
        /\ IsOk(out) =>
              LET s == out[2]
                  d == SettingsDefault
              IN  /\ ~HasKey(wire, "chain") => s.chain = d.chain
                  /\ ~HasKey(wire, "networkPolicy") => s.network_policy = d.network_policy
                  /\ ~HasKey(wire, "seqSeparation") =>
                        s.sequence_separation = d.sequence_separation
                  /\ ~HasKey(wire, "thresholds") => s.thresholds = d.thresholds
                  /\ ~HasKey(wire, "nohetero") => s.skip_hetero = d.skip_hetero
                  /\ ~HasKey(wire, "nowater") => s.skip_water = d.skip_water
                  /\ ~HasKey(wire, "noenergy") => s.skip_energy = d.skip_energy
                  /\ ~HasKey(wire, "msa") => s.perform_msa = d.perform_msa
                  /\ (\A k \in InteractionKeys : ~HasKey(wire, k)) =>
                        s.interactions = d.interactions
                  /\ Len(wire) = 0 => s = d

FromWireIgnoresUnknownKeysWitness ==
    /\ pc = "done" /\ job[1] = "decode"
    /\ wire = << <<"ringmd", StrFalse>>, <<"chain", <<"B">>>>, <<"fileName", <<"x", ".", "p", "d", "b">>>> >>
    /\ out = Ok([SettingsDefault EXCEPT !.chain = ChainId("B")])

FixedKeys ==
    <<"ringmd", "chain", "networkPolicy", "seqSeparation", "thresholds",
      "nohetero", "nowater", "noenergy">>

\* C4: the serialized entries come in the fixed order ringmd, chain,
\* networkPolicy, seqSeparation, thresholds, nohetero, nowater, noenergy, then
\* msa if present, then the interaction flag if present; the first eight are
\* always there, no key repeats, and the values are texts of the stated form.
ToWireOrder ==
    Encoded =>
        LET keys == KeysOf(wire)
            rest == SubSeq(keys, Len(FixedKeys) + 1, Len(keys))
            s == job[2]
        IN  /\ Len(keys) >= Len(FixedKeys)
            /\ SubSeq(keys, 1, Len(FixedKeys)) = FixedKeys
            /\ \/ rest = <<>>
               \/ rest = <<"msa">>
               \/ \E k \in InteractionKeys : rest = <<k>> \/ rest = <<"msa", k>>
            /\ \A i, j \in 1..Len(keys) : keys[i] = keys[j] => i = j
            /\ wire[1][2] = StrFalse
            /\ wire[2][2] = (IF s.chain = ChainAll THEN StrAll ELSE <<s.chain[2]>>)
            /\ wire[3][2] \in {<<"c", "l", "o", "s", "e", "s", "t">>, <<"l", "o", "l", "l", "i", "p", "o", "p">>, <<"c", "a">>, <<"c", "b">>}
            /\ AllDigits(wire[4][2]) /\ Len(wire[4][2]) > 0
            /\ DigitsValue(wire[4][2]) = s.sequence_separation
            /\ (Len(wire[4][2]) > 1 => wire[4][2][1] # "0")
            /\ wire[5][2] \in Seq({"{", "}", Quote, ":", ",", "."}
                                    \cup {DigitChars[i] : i \in 1..10}
                                    \cup {"a", "b", "c", "d", "e", "h", "i", "l",
                                          "n", "o", "p", "s", "t", "u", "v", "w"})

ToWireOrderWitness ==
    /\ Encoded /\ pc = "wire"
    /\ KeysOf(wire) = FixedKeys \o <<"msa", "onlyFirstEdge">>
    /\ wire[4][2] = <<"1", "0">>
    /\ wire[2][2] = <<":">>

\* C5: msa is present, with value "true", exactly when perform_msa is set;
\* nohetero, nowater and noenergy are always present and spell skip_hetero,
\* skip_water and skip_energy; the default settings give nohetero=false,
\* nowater=true, noenergy=true and no msa.
ToWireBooleans ==
    Encoded =>
        LET s == job[2]
        IN  /\ HasKey(wire, "msa") <=> s.perform_msa
            /\ ValuesOf(wire, "msa") \subseteq {StrTrue}
            /\ ValuesOf(wire, "nohetero") =
                  {IF s.skip_hetero THEN StrTrue ELSE StrFalse}
            /\ ValuesOf(wire, "nowater") =
                  {IF s.skip_water THEN StrTrue ELSE StrFalse}
            /\ ValuesOf(wire, "noenergy") =
                  {IF s.skip_energy THEN StrTrue ELSE StrFalse}
            /\ s = SettingsDefault =>
                  /\ ValuesOf(wire, "nohetero") = {StrFalse}
                  /\ ValuesOf(wire, "nowater") = {StrTrue}
                  /\ ValuesOf(wire, "noenergy") = {StrTrue}
                  /\ ~HasKey(wire, "msa")

ToWireBooleansWitness ==
    /\ Encoded
    /\ job[2].perform_msa /\ job[2].skip_hetero /\ ~job[2].skip_energy
    /\ HasKey(wire, "msa")
    /\ ValuesOf(wire, "noenergy") = {StrFalse}

\* C6: at most one of allEdges, onlyFirstEdge, nospecific is present:
\* allEdges for All, onlyFirstEdge for MostEnergetic, nospecific for
\* NoSpecific, each with value "true", and none of them for Multiple.
ToWireInteractionFlag ==
    Encoded =>
        LET s == job[2]
        IN  /\ Cardinality({i \in 1..Len(wire) : wire[i][1] \in InteractionKeys}) <= 1
            /\ HasKey(wire, "allEdges") <=> s.interactions = "All"
            /\ HasKey(wire, "onlyFirstEdge") <=> s.interactions = "MostEnergetic"
            /\ HasKey(wire, "nospecific") <=> s.interactions = "NoSpecific"
            /\ \A k \in InteractionKeys : ValuesOf(wire, k) \subseteq {StrTrue}
            /\ s.interactions = "Multiple" =>
                  \A k \in InteractionKeys : ~HasKey(wire, k)

ToWireInteractionFlagWitness ==
    /\ Encoded
    /\ job[2].interactions = "MostEnergetic"
    /\ ValuesOf(wire, "onlyFirstEdge") = {StrTrue}
    /\ ~HasKey(wire, "allEdges") /\ ~HasKey(wire, "nospecific")

(***************************************************************************)
(* requests/result.rs: the closed enumerations and their wire tokens       *)
(* (#[serde(rename = ...)]).  Display writes the token; FromStr goes       *)
(* through the derived Deserialize, which takes exactly the tokens.        *)
(***************************************************************************)
ResidueTokens ==
    << <<"Alanine", <<"A", "L", "A">>>>,
       <<"Arginine", <<"A", "R", "G">>>>,
       <<"Asparagine", <<"A", "S", "N">>>>,
       <<"AsparticAcid", <<"A", "S", "P">>>>,
       <<"Cysteine", <<"C", "Y", "S">>>>,
       <<"GlutamicAcid", <<"G", "L", "U">>>>,
       <<"Glutamine", <<"G", "L", "N">>>>,
       <<"Glycine", <<"G", "L", "Y">>>>,
       <<"Homocysteine", <<"H", "C", "Y">>>>,
       <<"Histidine", <<"H", "I", "S">>>>,
       <<"Homoserine", <<"H", "S", "E">>>>,
       <<"Isoleucine", <<"I", "L", "E">>>>,
       <<"Leucine", <<"L", "E", "U">>>>,
       <<"Lysine", <<"L", "Y", "S">>>>,
       <<"Methionine", <<"M", "E", "T">>>>,
       <<"Norleucine", <<"N", "L", "E">>>>,
       <<"Norvaline", <<"N", "V", "A">>>>,
       <<"Ornithine", <<"O", "R", "N">>>>,
       <<"Penicillamine", <<"P", "E", "N">>>>,
       <<"Phenylalanine", <<"P", "H", "E">>>>,
       <<"Proline", <<"P", "R", "O">>>>,
       <<"Pyrrolysine", <<"P", "Y", "L">>>>,
       <<"Selenocysteine", <<"S", "E", "C">>>>,
       <<"Serine", <<"S", "E", "R">>>>,
       <<"Threonine", <<"T", "H", "R">>>>,
       <<"Tryptophan", <<"T", "R", "P">>>>,
       <<"Tyrosine", <<"T", "Y", "R">>>>,
       <<"Valine", <<"V", "A", "L">>>>,
       <<"AsparagineOrAsparticAcid", <<"A", "S", "X">>>>,
       <<"GlutamineOrGlutamicAcid", <<"G", "L", "X">>>>,
       <<"LeucineOrIsoleucine", <<"X", "L", "E">>>>,
       <<"Unknown", <<"X", "A", "A">>>> >>

Residue == {ResidueTokens[i][1] : i \in 1..Len(ResidueTokens)}

InteractionMainTokens ==
    << <<"HydrogenBond", <<"H", "B", "O", "N", "D">>>>,
       <<"VanDerWaals", <<"V", "D", "W">>>>,
       <<"Disulphide", <<"S", "S", "B", "O", "N", "D">>>>,
       <<"Ionic", <<"I", "O", "N", "I", "C">>>>,
       <<"PiPiStack", <<"P", "I", "P", "I", "S", "T", "A", "C", "K">>>>,
       <<"PiCation", <<"P", "I", "C", "A", "T", "I", "O", "N">>>> >>

InteractionMainType == {InteractionMainTokens[i][1] : i \in 1..Len(InteractionMainTokens)}

InteractionSubTokens ==
    << <<"MainChain", <<"M", "C">>>>,
       <<"SideChain", <<"S", "C">>>>,
       <<"Ligand", <<"L", "I", "G">>>> >>

InteractionSubType == {InteractionSubTokens[i][1] : i \in 1..Len(InteractionSubTokens)}

\* Display of a unit variant: its serde name.
TokenOf(table, variant) ==
    table[CHOOSE i \in 1..Len(table) : table[i][1] = variant][2]

\* A FromStr with a catch-all: a text that is no token is read as Unknown.
VariantOfCatchAll(table, s) ==
    IF \E i \in 1..Len(table) : table[i][2] = s
    THEN Ok(table[CHOOSE i \in 1..Len(table) : table[i][2] = s][1])
    ELSE Ok("Unknown")

\* FromStr of a unit-variant enum: serde_json::from_value(Value::from(s)),
\* a Json error when s is no token of the enum.
VariantOf(table, s) ==
    IF \E i \in 1..Len(table) : table[i][2] = s
    THEN Ok(table[CHOOSE i \in 1..Len(table) : table[i][2] = s][1])
    ELSE Err("Json")

ResidueDisplay(r) == TokenOf(ResidueTokens, r)
ResidueFromStr(s) == VariantOf(ResidueTokens, s)
InteractionMainTypeDisplay(m) == TokenOf(InteractionMainTokens, m)
InteractionMainTypeFromStr(s) == VariantOf(InteractionMainTokens, s)
InteractionSubTypeDisplay(m) == TokenOf(InteractionSubTokens, m)
InteractionSubTypeFromStr(s) == VariantOf(InteractionSubTokens, s)

\* The `?` on a component parse: From<ParseCharError>, From<ParseIntError>
\* and From<ParseFloatError> give Error::Parsing, a Json error stays Json.
Wrapped(r) ==
    IF IsOk(r) \/ r[2] = "Json" THEN r ELSE Err("Parsing")

(***************************************************************************)
(* NodeId: "{chain}:{position}:{insertion}:{residue}".                     *)
(***************************************************************************)
\* A Display that writes the insertion code where the chain belongs.
NodeIdDisplaySwapped(x) ==
    <<x.insertion_code>> \o <<":">> \o IsizeToString(x.position) \o <<":">>
        \o <<x.chain_id>> \o <<":">> \o ResidueDisplay(x.residue)

\* impl Display for NodeId
NodeIdDisplay(x) ==
    <<x.chain_id>> \o <<":">> \o IsizeToString(x.position) \o <<":">>
        \o <<x.insertion_code>> \o <<":">> \o ResidueDisplay(x.residue)

\* The struct literal of from_str: the four component parses in field
\* order, the first failure returned.
NodeIdFields(v) ==
    LET c == Wrapped(ParseChar(v[1]))
        p == Wrapped(ParseIsize(v[2]))
        i == Wrapped(ParseChar(v[3]))
        r == Wrapped(ResidueFromStr(v[4]))
    IN  IF IsErr(c) THEN c
        ELSE IF IsErr(p) THEN p
        ELSE IF IsErr(i) THEN i
        ELSE IF IsErr(r) THEN r
        ELSE Ok([chain_id |-> c[2], position |-> p[2],
                 insertion_code |-> i[2], residue |-> r[2]])

\* A from_str that takes the first four fields and drops the rest.
NodeIdFromStrAtLeastFour(s) ==
    LET v == Split(s, ":")
    IN  IF Len(v) >= 4 THEN NodeIdFields(v) ELSE Err("Serialization")

\* impl FromStr for NodeId
NodeIdFromStr(s) ==
    LET v == Split(s, ":")
    IN  IF Len(v) = 4 THEN NodeIdFields(v) ELSE Err("Serialization")

(***************************************************************************)
(* Interaction: "{main}:{sub1}_{sub2}".                                    *)
(***************************************************************************)
\* A Display that writes the two subtypes in the other order.
InteractionDisplaySwapped(x) ==
    InteractionMainTypeDisplay(x.main_type) \o <<":">>
        \o InteractionSubTypeDisplay(x.subtype_2) \o <<"_">>
        \o InteractionSubTypeDisplay(x.subtype_1)

\* impl Display for Interaction
InteractionDisplay(x) ==
    InteractionMainTypeDisplay(x.main_type) \o <<":">>
        \o InteractionSubTypeDisplay(x.subtype_1) \o <<"_">>
        \o InteractionSubTypeDisplay(x.subtype_2)

\* The struct literal of from_str.
InteractionFields(main, parts) ==
    LET m == Wrapped(InteractionMainTypeFromStr(main))
        a == Wrapped(InteractionSubTypeFromStr(parts[1]))
        b == Wrapped(InteractionSubTypeFromStr(parts[2]))
    IN  IF IsErr(m) THEN m
        ELSE IF IsErr(a) THEN a
        ELSE IF IsErr(b) THEN b
        ELSE Ok([main_type |-> m[2], subtype_1 |-> a[2], subtype_2 |-> b[2]])

\* The inner split of from_str, on '_'.
InteractionSubParts(main, rest) ==
    LET parts == Split(rest, "_")
    IN  IF Len(parts) = 2 THEN InteractionFields(main, parts)
        ELSE Err("Serialization")

\* A from_str that takes the first two colon-separated parts and drops the
\* rest.
InteractionFromStrTruncating(s) ==
    LET parts == Split(s, ":")
    IN  IF Len(parts) >= 2 THEN InteractionSubParts(parts[1], parts[2])
        ELSE Err("Serialization")

\* impl FromStr for Interaction
InteractionFromStr(s) ==
    LET parts == Split(s, ":")
    IN  IF Len(parts) = 2 THEN InteractionSubParts(parts[1], parts[2])
        ELSE Err("Serialization")

(***************************************************************************)
(* The inputs of the NodeId and Interaction codecs.                        *)
(***************************************************************************)
MaxPos == 10
MaxFields == 5
MaxPieces == 6

NodeChars == {"A", "_", "-", ":"}

NodeIds ==
    [chain_id : NodeChars,
     position : (0 - MaxPos)..MaxPos,
     insertion_code : NodeChars,
     residue : Residue]

\* Texts a received node id is made of: colon-separated fields, well-formed
\* and malformed.
NodeFieldTexts == {<<>>, <<"A">>, <<"-", "1">>, <<"A", "L", "A">>, <<"x", "a", "a">>, <<"A", "B">>}

NodeIdTexts == {Join(f, <<":">>) : f \in SeqsOf(NodeFieldTexts, 1, MaxFields)}

NodeIdJobs ==
    {<<"render", x>> : x \in NodeIds} \cup {<<"parse", s>> : s \in NodeIdTexts}

Interactions ==
    [main_type : InteractionMainType,
     subtype_1 : InteractionSubType,
     subtype_2 : InteractionSubType]

\* Texts a received interaction is made of: tokens and delimiters in any
\* arrangement.
InteractionPieces ==
    {<<"H", "B", "O", "N", "D">>, <<"M", "C">>, <<"S", "C">>, <<"s", "c">>,
     <<":">>, <<"_">>}

InteractionTexts ==
    {Join(f, <<>>) : f \in SeqsOf(InteractionPieces, 0, MaxPieces)}

InteractionJobs ==
    {<<"render", x>> : x \in Interactions}
        \cup {<<"parse", s>> : s \in InteractionTexts}

(***************************************************************************)
(* The NodeId codec as a state machine: a NodeId is rendered, or a text    *)
(* arrives in a response; the text is then parsed.                         *)
(***************************************************************************)
InitNodeId ==
    /\ job \in NodeIdJobs
    /\ pc = "start"
    /\ wire = None
    /\ out = None
    /\ ser = None
    /\ calls = <<>>

RenderNodeId ==
    /\ pc = "start" /\ job[1] = "render"
    /\ wire' = NodeIdDisplay(job[2])
    /\ pc' = "wire"
    /\ UNCHANGED <<job, out, ser, calls>>

ReceiveNodeId ==
    /\ pc = "start" /\ job[1] = "parse"
    /\ wire' = job[2]
    /\ pc' = "wire"
    /\ UNCHANGED <<job, out, ser, calls>>

ParseNodeId ==
    /\ pc = "wire"
    /\ out' = NodeIdFromStr(wire)
    /\ pc' = "done"
    /\ UNCHANGED <<job, wire, ser, calls>>

NextNodeId == RenderNodeId \/ ReceiveNodeId \/ ParseNodeId

SpecNodeId == InitNodeId /\ [][NextNodeId]_vars

(***************************************************************************)
(* The Interaction codec as a state machine, likewise.                     *)
(***************************************************************************)
InitInteraction ==
    /\ job \in InteractionJobs
    /\ pc = "start"
    /\ wire = None
    /\ out = None
    /\ ser = None
    /\ calls = <<>>

RenderInteraction ==
    /\ pc = "start" /\ job[1] = "render"
    /\ wire' = InteractionDisplay(job[2])
    /\ pc' = "wire"
    /\ UNCHANGED <<job, out, ser, calls>>

ReceiveInteraction ==
    /\ pc = "start" /\ job[1] = "parse"
    /\ wire' = job[2]
    /\ pc' = "wire"
    /\ UNCHANGED <<job, out, ser, calls>>

ParseInteraction ==
    /\ pc = "wire"
    /\ out' = InteractionFromStr(wire)
    /\ pc' = "done"
    /\ UNCHANGED <<job, wire, ser, calls>>

NextInteraction == RenderInteraction \/ ReceiveInteraction \/ ParseInteraction

SpecInteraction == InitInteraction /\ [][NextInteraction]_vars

(***************************************************************************)
(* Properties of the NodeId and Interaction codecs.                        *)
(***************************************************************************)
\* C7: every NodeId that is rendered and then parsed comes back equal to
\* itself.
NodeIdRoundTrip ==
    (pc = "done" /\ job[1] = "render") => out = Ok(job[2])

\* C8: a text is accepted only if it has exactly four colon-separated
\* fields; any other field count, the empty text included, is the
\* field-count error, whatever the fields hold.
NodeIdFieldCount ==
    pc = "done" =>
        /\ CountOf(wire, ":") # 3 => out = Err("Serialization")
        /\ IsOk(out) => CountOf(wire, ":") = 3
        /\ Len(wire) = 0 => IsErr(out)
        /\ (IsErr(out) /\ out[2] # "Serialization") => CountOf(wire, ":") = 3

NodeIdFieldCountWitness ==
    /\ pc = "done" /\ job[1] = "parse"
    /\ wire = <<"A", "B", ":", "x", "a", "a", ":", "A", "B">>
    /\ out = Err("Serialization")

\* C9: every Interaction that is rendered and then parsed comes back equal
\* to itself, and its text is the main token, a colon, the first subtype
\* token, an underscore and the second subtype token.
InteractionRoundTrip ==
    (pc \in {"wire", "done"} /\ job[1] = "render") =>
        LET x == job[2]
            halves == Split(wire, ":")
            subs == Split(halves[2], "_")
        IN  /\ Len(halves) = 2
            /\ Len(subs) = 2
            /\ \E i \in 1..Len(InteractionMainTokens) :
                  InteractionMainTokens[i] = <<x.main_type, halves[1]>>
            /\ \E i \in 1..Len(InteractionSubTokens) :
                  InteractionSubTokens[i] = <<x.subtype_1, subs[1]>>
            /\ \E i \in 1..Len(InteractionSubTokens) :
                  InteractionSubTokens[i] = <<x.subtype_2, subs[2]>>
            /\ pc = "done" => out = Ok(x)

InteractionRoundTripWitness ==
    /\ pc = "done" /\ job[1] = "render"
    /\ wire = <<"P", "I", "P", "I", "S", "T", "A", "C", "K", ":", "L", "I", "G", "_", "S", "C">>
    /\ out = Ok([main_type |-> "PiPiStack", subtype_1 |-> "Ligand",
                 subtype_2 |-> "SideChain"])

\* C10: a text is accepted only if it holds exactly one colon and exactly
\* one underscore after that colon; every other shape is an error.
InteractionShape ==
    pc = "done" =>
        LET colons == {i \in 1..Len(wire) : wire[i] = ":"}
            shaped ==
                /\ Cardinality(colons) = 1
                /\ \E k \in colons :
                      CountOf(SubSeq(wire, k + 1, Len(wire)), "_") = 1
        IN  /\ IsOk(out) => shaped
            /\ ~shaped => out = Err("Serialization")

InteractionShapeWitness ==
    /\ pc = "done" /\ job[1] = "parse"
    /\ wire = <<"H", "B", "O", "N", "D", "_", "M", "C", "_", "S", "C">>
    /\ IsErr(out)

(***************************************************************************)
(* Atom: a name, or "x,y,z".  An f64 coordinate is carried in hundredths   *)
(* (-4.25 is -425).  The reader covers the decimal texts of the model:     *)
(* an optional sign, digits, optionally '.' and digits; exponents and the  *)
(* texts inf and NaN are not among them.                                   *)
(***************************************************************************)
\* A Display that always writes two decimals, so 1.5 is "1.50".
F64ToStringFixed(h) ==
    LET a == IF h < 0 THEN 0 - h ELSE h
    IN  (IF h < 0 THEN <<"-">> ELSE <<>>) \o Digits(a \div 100)
            \o <<".", DigitChars[((a % 100) \div 10) + 1], DigitChars[(a % 10) + 1]>>

\* f64 as Display: the shortest decimal text, so 3.0 is "3" and 0.5 "0.5".
F64ToString(h) ==
    LET a == IF h < 0 THEN 0 - h ELSE h
        frac == a % 100
        fracText ==
            IF frac = 0 THEN <<>>
            ELSE IF frac % 10 = 0 THEN <<".", DigitChars[(frac \div 10) + 1]>>
            ELSE <<".", DigitChars[(frac \div 10) + 1], DigitChars[(frac % 10) + 1]>>
    IN  (IF h < 0 THEN <<"-">> ELSE <<>>) \o Digits(a \div 100) \o fracText

\* <f64 as FromStr>::from_str
ParseF64(s) ==
    LET signed == Len(s) > 0 /\ s[1] \in {"+", "-"}
        body == IF signed THEN Tail(s) ELSE s
        parts == Split(body, ".")
        whole == parts[1]
        frac == IF Len(parts) = 2 THEN parts[2] ELSE <<>>
        wellFormed ==
            /\ Len(parts) \in {1, 2}
            /\ AllDigits(whole) /\ AllDigits(frac)
            /\ Len(whole) + Len(frac) > 0
        magnitude ==
            (IF Len(whole) = 0 THEN 0 ELSE DigitsValue(whole)) * 100
                + (IF Len(frac) >= 1 THEN DigitValue(frac[1]) * 10 ELSE 0)
                + (IF Len(frac) >= 2 THEN DigitValue(frac[2]) ELSE 0)
    IN  IF ~wellFormed THEN Err("ParseFloat")
        ELSE IF signed /\ s[1] = "-" THEN Ok(0 - magnitude)
        ELSE Ok(magnitude)

AtomName(s) == <<"Name", s>>
AtomCoords(x, y, z) == <<"Coords", x, y, z>>

\* impl Display for Atom
AtomDisplay(t) ==
    IF t[1] = "Name" THEN t[2]
    ELSE F64ToString(t[2]) \o <<",">> \o F64ToString(t[3]) \o <<",">>
             \o F64ToString(t[4])

\* The struct literal of from_str: the three component parses in order.
AtomCoordFields(parts) ==
    LET x == Wrapped(ParseF64(parts[1]))
        y == Wrapped(ParseF64(parts[2]))
        z == Wrapped(ParseF64(parts[3]))
    IN  IF IsErr(x) THEN x
        ELSE IF IsErr(y) THEN y
        ELSE IF IsErr(z) THEN z
        ELSE Ok(AtomCoords(x[2], y[2], z[2]))

\* A from_str that takes a text whose three parts are not all numbers as a
\* name.
AtomFromStrNameFallback(s) ==
    LET parts == Split(s, ",")
    IN  IF Len(parts) = 3 /\ IsOk(AtomCoordFields(parts))
        THEN AtomCoordFields(parts)
        ELSE Ok(AtomName(s))

\* impl FromStr for Atom
AtomFromStr(s) ==
    LET parts == Split(s, ",")
    IN  IF Len(parts) = 3 THEN AtomCoordFields(parts) ELSE Ok(AtomName(s))

(***************************************************************************)
(* The inputs of the Atom codec and the codec as a state machine.          *)
(***************************************************************************)
MaxAtomFields == 4
MaxCoord == 6

\* Texts an atom is made of: comma-separated fields, names and numbers.
AtomFieldTexts == {<<>>, <<"C", "A">>, <<"1">>, <<"-", "4", ".", "2", "5">>, <<"3", ".", "0">>, <<"a">>}

AtomTexts == {Join(f, <<",">>) : f \in SeqsOf(AtomFieldTexts, 1, MaxAtomFields)}

\* Coordinates in steps of 0.25.
CoordValues == {25 * k : k \in (0 - MaxCoord)..MaxCoord}

Atoms ==
    {AtomName(s) : s \in AtomTexts}
        \cup {AtomCoords(c[1], c[2], c[3]) :
                 c \in CoordValues \X CoordValues \X CoordValues}

AtomJobs ==
    {<<"render", t>> : t \in Atoms} \cup {<<"parse", s>> : s \in AtomTexts}

InitAtom ==
    /\ job \in AtomJobs
    /\ pc = "start"
    /\ wire = None
    /\ out = None
    /\ ser = None
    /\ calls = <<>>

RenderAtom ==
    /\ pc = "start" /\ job[1] = "render"
    /\ wire' = AtomDisplay(job[2])
    /\ pc' = "wire"
    /\ UNCHANGED <<job, out, ser, calls>>

ReceiveAtom ==
    /\ pc = "start" /\ job[1] = "parse"
    /\ wire' = job[2]
    /\ pc' = "wire"
    /\ UNCHANGED <<job, out, ser, calls>>

ParseAtom ==
    /\ pc = "wire"
    /\ out' = AtomFromStr(wire)
    /\ pc' = "done"
    /\ UNCHANGED <<job, wire, ser, calls>>

NextAtom == RenderAtom \/ ReceiveAtom \/ ParseAtom

SpecAtom == InitAtom /\ [][NextAtom]_vars

\* Decimal texts among the fields of the model, and their values.
NumberTexts == {<<"1">>, <<"-", "4", ".", "2", "5">>, <<"3", ".", "0">>}

\* C11: a text of exactly three comma-separated parts is Coords when all
\* three are numbers and an error when one is not, never a Name; a text of
\* any other number of parts, the empty text included, is a Name holding the
\* whole text.
AtomParseRule ==
    (pc = "done" /\ job[1] = "parse") =>
        LET commas == {i \in 1..Len(wire) : wire[i] = ","}
            first == CHOOSE i \in commas : \A j \in commas : i <= j
            last == CHOOSE i \in commas : \A j \in commas : j <= i
            numbers ==
                /\ SubSeq(wire, 1, first - 1) \in NumberTexts
                /\ SubSeq(wire, first + 1, last - 1) \in NumberTexts
                /\ SubSeq(wire, last + 1, Len(wire)) \in NumberTexts
        IN  IF Cardinality(commas) = 2
            THEN /\ numbers => (IsOk(out) /\ out[2][1] = "Coords")
                 /\ ~numbers => out = Err("Parsing")
            ELSE out = Ok(AtomName(wire))

AtomParseRuleWitness ==
    /\ pc = "done" /\ job[1] = "parse"
    /\ \/ wire = <<"a", ",", "a", ",", "a">> /\ out = Err("Parsing")
       \/ wire = <<"1", ",", "1", ",", "1", ",", "1">> /\ out = Ok(AtomName(<<"1", ",", "1", ",", "1", ",", "1">>))
       \/ wire = <<"1", ",", "-", "4", ".", "2", "5", ",", "3", ".", "0">> /\ out = Ok(AtomCoords(100, -425, 300))

\* C12: every Atom that is rendered and then parsed comes back equal to
\* itself.
AtomRoundTrip ==
    (pc = "done" /\ job[1] = "render") => out = Ok(job[2])

(***************************************************************************)
(* serde_angle: Option<f64> with -999.9 on the wire for None.  An angle is *)
(* carried in tenths (45.0 is 450); the wire is the text of a JSON number. *)
(***************************************************************************)
Some(v) == <<"Some", v>>

AngleSentinel == -9999

\* Serializer::serialize_f64 of a JSON serializer: a finite f64 is written
\* with its fraction, so 45.0 is "45.0".
F64ToJson(t) ==
    LET a == IF t < 0 THEN 0 - t ELSE t
    IN  (IF t < 0 THEN <<"-">> ELSE <<>>)
            \o Digits(a \div 10) \o <<".">> \o Digits(a % 10)

\* A serialize that writes None as 0.
AngleSerializeZero(value) ==
    F64ToJson(IF value = None THEN 0 ELSE value[2])

\* serde_angle::serialize
AngleSerialize(value) ==
    F64ToJson(IF value = None THEN AngleSentinel ELSE value[2])

\* The number a JSON deserializer reads: one with a fraction is an f64, a
\* negative integer an i64 and any other integer a u64.
JsonNumber(s) ==
    LET negative == Len(s) > 0 /\ s[1] = "-"
        body == IF negative THEN Tail(s) ELSE s
        parts == Split(body, ".")
        whole == parts[1]
        wellFormed ==
            /\ Len(parts) \in {1, 2}
            /\ Len(whole) > 0 /\ AllDigits(whole)
            /\ (Len(whole) > 1 => whole[1] # "0")
            /\ (Len(parts) = 2 => Len(parts[2]) > 0 /\ AllDigits(parts[2]))
        tenths == DigitsValue(whole) * 10 + DigitValue(parts[2][1])
    IN  IF ~wellFormed THEN Err("Json")
        ELSE IF Len(parts) = 2
             THEN <<"f64", IF negative THEN 0 - tenths ELSE tenths>>
        ELSE IF negative /\ DigitsValue(whole) = 0 THEN <<"f64", 0>>
        ELSE IF negative THEN <<"i64", 0 - DigitsValue(whole)>>
        ELSE <<"u64", DigitsValue(whole)>>

\* A visit_f64 that takes every value at or below the sentinel as invalid.
AngleVisitF64AtMost(v) ==
    IF v <= AngleSentinel THEN Ok(None) ELSE Ok(Some(v))

\* AngleVisitor::visit_f64
AngleVisitF64(v) ==
    IF v = AngleSentinel THEN Ok(None) ELSE Ok(Some(v))

\* AngleVisitor::visit_i64: v as f64
AngleVisitI64(v) == Ok(Some(v * 10))

\* AngleVisitor::visit_u64: v as f64
AngleVisitU64(v) == Ok(Some(v * 10))

\* serde_angle::deserialize
AngleDeserialize(s) ==
    LET n == JsonNumber(s)
    IN  IF IsErr(n) THEN n
        ELSE IF n[1] = "f64" THEN AngleVisitF64(n[2])
        ELSE IF n[1] = "i64" THEN AngleVisitI64(n[2])
        ELSE AngleVisitU64(n[2])

(***************************************************************************)
(* The inputs of serde_angle and the codec as a state machine.             *)
(***************************************************************************)
MaxAngle == 30

\* Angles in tenths around zero, and the values next to the sentinel.
AngleValues ==
    ((0 - MaxAngle)..MaxAngle)
        \cup {AngleSentinel - 1, AngleSentinel, AngleSentinel + 1}

Angles == {None} \cup {Some(v) : v \in AngleValues}

\* Integers on the wire, the ones next to the sentinel included.
AngleIntegers == ((0 - MaxAngle)..MaxAngle) \cup {-1000, -999, -9999}

AngleTexts ==
    {F64ToJson(v) : v \in AngleValues}
        \cup {IsizeToString(n) : n \in AngleIntegers}
        \cup {<<>>, <<"-">>, <<"1", ".">>, <<"x">>}

AngleJobs ==
    {<<"render", a>> : a \in Angles} \cup {<<"parse", s>> : s \in AngleTexts}

InitAngle ==
    /\ job \in AngleJobs
    /\ pc = "start"
    /\ wire = None
    /\ out = None
    /\ ser = None
    /\ calls = <<>>

RenderAngle ==
    /\ pc = "start" /\ job[1] = "render"
    /\ wire' = AngleSerialize(job[2])
    /\ pc' = "wire"
    /\ UNCHANGED <<job, out, ser, calls>>

ReceiveAngle ==
    /\ pc = "start" /\ job[1] = "parse"
    /\ wire' = job[2]
    /\ pc' = "wire"
    /\ UNCHANGED <<job, out, ser, calls>>

ParseAngle ==
    /\ pc = "wire"
    /\ out' = AngleDeserialize(wire)
    /\ pc' = "done"
    /\ UNCHANGED <<job, wire, ser, calls>>

NextAngle == RenderAngle \/ ReceiveAngle \/ ParseAngle

SpecAngle == InitAngle /\ [][NextAngle]_vars

\* C13: None is rendered as the number -999.9 and Some(v) as v; a float on
\* the wire equal to -999.9 is parsed as None and any other float v as
\* Some(v); an integer n, signed or unsigned, is parsed as Some(n as float).
AngleSentinelRule ==
    /\ (pc # "start" /\ job[1] = "render") =>
           IF job[2] = None THEN wire = <<"-", "9", "9", "9", ".", "9">>
           ELSE JsonNumber(wire) = <<"f64", job[2][2]>>
    /\ (pc = "done" /\ job[1] = "parse" /\ ~IsErr(JsonNumber(wire))) =>
           LET n == JsonNumber(wire)
           IN  IF n[1] = "f64"
               THEN out = Ok(IF wire = <<"-", "9", "9", "9", ".", "9">> THEN None ELSE Some(n[2]))
               ELSE out = Ok(Some(10 * n[2]))

AngleSentinelRuleWitness ==
    /\ pc = "done" /\ job[1] = "parse"
    /\ \/ wire = <<"-", "9", "9", "9", ".", "9">> /\ out = Ok(None)
       \/ wire = <<"-", "1", "0", "0", "0", ".", "0">> /\ out = Ok(Some(-10000))
       \/ wire = <<"-", "9", "9", "9", "9">> /\ out = Ok(Some(-99990))
       \/ wire = <<"3">> /\ out = Ok(Some(30))

\* C14 as stated: every angle, None and Some(v) for every float v, that is
\* rendered and then parsed comes back equal to itself.
AngleRoundTrip ==
    (pc = "done" /\ job[1] = "render") => out = Ok(job[2])

\* C14: None, and Some(v) for every finite v other than -999.9, comes back
\* equal to itself; Some(-999.9) is rendered as the sentinel and comes back
\* as None.
AngleRoundTripExceptSentinel ==
    (pc = "done" /\ job[1] = "render") =>
        IF job[2] = Some(AngleSentinel) THEN out = Ok(None)
        ELSE out = Ok(job[2])

AngleRoundTripExceptSentinelWitness ==
    /\ pc = "done" /\ job[1] = "render"
    /\ job[2] \in {None, Some(-25)}
    /\ out = Ok(job[2])

(***************************************************************************)
(* The donor, positive and cation of an edge: an Option<NodeId> read by    *)
(* deserialize_empty_nodeid, None when the field is missing.               *)
(***************************************************************************)
\* A visit_str that hands every text, the empty one too, to from_str.
EmptyNodeIdVisitStrStrict(s) ==
    LET r == NodeIdFromStr(s)
    IN  IF IsOk(r) THEN Ok(Some(r[2])) ELSE Err("custom")

\* EmptyNodeIdVisitor::visit_str
EmptyNodeIdVisitStr(s) ==
    IF Len(s) = 0 THEN Ok(None)
    ELSE LET r == NodeIdFromStr(s)
         IN  IF IsOk(r) THEN Ok(Some(r[2])) ELSE Err("custom")

\* #[serde(default)] on an Option field
EmptyNodeIdDefault == Ok(None)

EmptyNodeIdJobs ==
    {<<"present", s>> : s \in NodeIdTexts} \cup {<<"missing">>}

InitEmptyNodeId ==
    /\ job \in EmptyNodeIdJobs
    /\ pc = "start"
    /\ wire = None
    /\ out = None
    /\ ser = None
    /\ calls = <<>>

\* The field is in the edge object: its string reaches the visitor.
ReceiveEmptyNodeId ==
    /\ pc = "start" /\ job[1] = "present"
    /\ wire' = job[2]
    /\ pc' = "wire"
    /\ UNCHANGED <<job, out, ser, calls>>

VisitEmptyNodeId ==
    /\ pc = "wire"
    /\ out' = EmptyNodeIdVisitStr(wire)
    /\ pc' = "done"
    /\ UNCHANGED <<job, wire, ser, calls>>

\* The field is not in the edge object.
MissingEmptyNodeId ==
    /\ pc = "start" /\ job[1] = "missing"
    /\ out' = EmptyNodeIdDefault
    /\ pc' = "done"
    /\ UNCHANGED <<job, wire, ser, calls>>

NextEmptyNodeId ==
    ReceiveEmptyNodeId \/ VisitEmptyNodeId \/ MissingEmptyNodeId

SpecEmptyNodeId == InitEmptyNodeId /\ [][NextEmptyNodeId]_vars

\* C15: the empty string decodes to None without error; a non-empty string
\* decodes to Some(x) exactly when the node id parser gives x and is a decode
\* error exactly when the node id parser fails; a missing field decodes to
\* None.
EmptyableNodeIdRule ==
    pc = "done" =>
        IF job[1] = "missing" THEN out = Ok(None)
        ELSE IF wire = <<>> THEN out = Ok(None)
        ELSE LET r == NodeIdFromStr(wire)
             IN  /\ IsOk(r) => out = Ok(Some(r[2]))
                 /\ IsErr(r) => IsErr(out)

EmptyableNodeIdRuleWitness ==
    /\ pc = "done" /\ job[1] = "present"
    /\ wire = <<>>
    /\ out = Ok(None)
    /\ IsErr(NodeIdFromStr(wire))

(***************************************************************************)
(* multipart.rs: to_form and its FormSerializer.  A value to encode is a   *)
(* tagged tuple standing for what its Serialize impl calls; the calls the  *)
(* impl still has to make are the queue `calls`, the serializer is the     *)
(* record `ser`.  The Form is the sequence of its parts,                   *)
(* <<"Text", key, value>>, <<"File", key, contents, file_name>> and        *)
(* <<"Bytes", key, blob>>.  Error::custom(msg) is <<"Err", msg>>.          *)
(***************************************************************************)
VBool(v) == <<"Bool", v>>
VI64(v) == <<"I64", v>>
VF64(v) == <<"F64", v>>
VChar(v) == <<"Char", v>>
VStr(v) == <<"Str", v>>
VBytes(v) == <<"Bytes", v>>
VUnit == <<"Unit">>
VSeq == <<"Seq">>
VTuple == <<"Tuple">>
VTupleVariant == <<"TupleVariant">>
VStructVariant == <<"StructVariant">>
\* An enum variant with one payload: the variant's name and the payload.
VNewtypeVariant(variant, value) == <<"NewtypeVariant", variant, value>>
\* A tuple struct: the name and the length it declares, and the fields its
\* impl goes on to supply.
VTupleStruct(name, len, fields) == <<"TupleStruct", name, len, fields>>
\* A map or a struct: the serialize_key and serialize_value calls of its
\* impl.
VMap(ops) == <<"Map", ops>>

\* #[serde(rename = "$FormFile")] struct FormFile(String, String)
FormFile(contents, file_name) ==
    VTupleStruct("$FormFile", 2, <<VStr(contents), VStr(file_name)>>)

TopLevelNotMap ==
    "top-level value to be serialized as multipart should be a map or a struct"
BlobAsKey == "binary blob can't be serialized as a key, only as a value"
TupleStructAtTopLevel == "can't serialize tuple struct at top level"
NestedMap ==
    "can't serialize a map-like value as multipart unless it's at the top level"

\* impl Default for FormSerializer
FormSerializerDefault ==
    [serializing_map |-> FALSE,
     serializing_file |-> FALSE,
     current_key |-> None,
     current_file_contents |-> None,
     form |-> <<>>]

\* A serialize_form_string that takes the first string of a file part as the
\* file name and the second as the contents.
SerializeFormStringNameFirst(s, string) ==
    IF s.serializing_map
    THEN IF s.current_key # None
         THEN IF s.serializing_file
              THEN IF s.current_file_contents # None
                   THEN Ok([s EXCEPT
                              !.current_key = None,
                              !.current_file_contents = None,
                              !.form = Append(s.form,
                                  <<"File", s.current_key[2], string,
                                    s.current_file_contents[2]>>)])
                   ELSE Ok([s EXCEPT !.current_file_contents = Some(string)])
              ELSE Ok([s EXCEPT
                         !.current_key = None,
                         !.form = Append(s.form,
                             <<"Text", s.current_key[2], string>>)])
         ELSE Ok([s EXCEPT !.current_key = Some(string)])
    ELSE Err(TopLevelNotMap)

\* FormSerializer::serialize_form_string
SerializeFormString(s, string) ==
    IF s.serializing_map
    THEN IF s.current_key # None
         THEN IF s.serializing_file
              THEN IF s.current_file_contents # None
                   THEN Ok([s EXCEPT
                              !.current_key = None,
                              !.current_file_contents = None,
                              !.form = Append(s.form,
                                  <<"File", s.current_key[2],
                                    s.current_file_contents[2], string>>)])
                   ELSE Ok([s EXCEPT !.current_file_contents = Some(string)])
              ELSE Ok([s EXCEPT
                         !.current_key = None,
                         !.form = Append(s.form,
                             <<"Text", s.current_key[2], string>>)])
         ELSE Ok([s EXCEPT !.current_key = Some(string)])
    ELSE Err(TopLevelNotMap)

\* A serialize_form_blob that looks for the key before it looks at the
\* level.
SerializeFormBlobKeyFirst(s, blob) ==
    IF s.current_key = None THEN Err(BlobAsKey)
    ELSE IF s.serializing_map
         THEN Ok([s EXCEPT
                    !.current_key = None,
                    !.form = Append(s.form,
                        <<"Bytes", s.current_key[2], blob>>)])
         ELSE Err(TopLevelNotMap)

\* FormSerializer::serialize_form_blob
SerializeFormBlob(s, blob) ==
    IF s.serializing_map
    THEN IF s.current_key = None THEN Err(BlobAsKey)
         ELSE Ok([s EXCEPT
                    !.current_key = None,
                    !.form = Append(s.form,
                        <<"Bytes", s.current_key[2], blob>>)])
    ELSE Err(TopLevelNotMap)

\* A serialize_tuple_struct that takes any tuple struct of two fields for a
\* form file.
SerializeTupleStructAnyName(s, name, len) ==
    IF ~s.serializing_map THEN Err(TupleStructAtTopLevel)
    ELSE IF s.current_key = None THEN Err("can't serialize tuple struct as field name")
    ELSE IF len # 2 THEN Err("only form file can be serialized as tuple struct")
    ELSE IF s.serializing_file THEN Err("can't serialize a tuple struct inside a file")
    ELSE Ok([s EXCEPT !.serializing_file = TRUE])

\* A serialize_tuple_struct that does not note that a file has begun.
SerializeTupleStructNoFlag(s, name, len) ==
    IF ~s.serializing_map THEN Err(TupleStructAtTopLevel)
    ELSE IF s.current_key = None THEN Err("can't serialize tuple struct as field name")
    ELSE IF name # "$FormFile" \/ len # 2 THEN Err("only form file can be serialized as tuple struct")
    ELSE IF s.serializing_file THEN Err("can't serialize a tuple struct inside a file")
    ELSE Ok(s)

\* Serializer::serialize_tuple_struct
SerializeTupleStruct(s, name, len) ==
    IF ~s.serializing_map THEN Err(TupleStructAtTopLevel)
    ELSE IF s.current_key = None THEN Err("can't serialize tuple struct as field name")
    ELSE IF name # "$FormFile" \/ len # 2 THEN Err("only form file can be serialized as tuple struct")
    ELSE IF s.serializing_file THEN Err("can't serialize a tuple struct inside a file")
    ELSE Ok([s EXCEPT !.serializing_file = TRUE])

\* A serialize_map that lets a record through when it is the value of a key.
SerializeMapUnderKey(s) ==
    IF s.serializing_map /\ s.current_key = None THEN Err(NestedMap)
    ELSE Ok([s EXCEPT !.serializing_map = TRUE])

\* Serializer::serialize_map, and serialize_struct which calls it
SerializeMap(s) ==
    IF s.serializing_map THEN Err(NestedMap)
    ELSE Ok([s EXCEPT !.serializing_map = TRUE])

\* SerializeTupleStruct::serialize_field, up to its value.serialize
SerializeTupleStructField(s) ==
    IF s.serializing_file THEN Ok(s) ELSE Err("can't serialize a tuple struct as multipart")

\* A failed assert!
Panic(msg) == <<"Panic", msg>>

\* SerializeTupleStruct::end
SerializeTupleStructEnd(s) ==
    IF ~s.serializing_map THEN Panic("assertion failed: self.serializing_map")
    ELSE IF ~s.serializing_file THEN Panic("assertion failed: self.serializing_file")
    ELSE IF s.current_key # None THEN Err("missing contents from file form part")
    ELSE IF s.current_file_contents # None THEN Err("missing file_name from file form part")
    ELSE Ok([s EXCEPT !.serializing_file = FALSE])

\* SerializeMap::serialize_key, up to its key.serialize
SerializeMapKey(s) ==
    IF s.current_key = None THEN Ok(s) ELSE Err("can't serialize two keys in a row without a value")

\* SerializeMap::serialize_value, up to its value.serialize
SerializeMapValue(s) ==
    IF s.current_key # None THEN Ok(s) ELSE Err("can't serialize value without first serializing a key")

\* An end that does not look for a pending key.
SerializeMapEndLenient(s) == Ok(s)

\* SerializeMap::end, and SerializeStruct::end which calls it
SerializeMapEnd(s) ==
    IF s.current_key = None THEN Ok(s) ELSE Err("missing value after key")

(***************************************************************************)
(* The values handed to to_form.                                           *)
(***************************************************************************)
MaxSomeDepth == 2
MaxRecordEntries == 3
MaxFileFields == 5
MaxOps == 3

RECURSIVE SomeNest(_, _)
\* Some(Some(...v)), d deep.
SomeNest(d, v) == IF d = 0 THEN v ELSE Some(SomeNest(d - 1, v))

KeyOp(k) == <<"serialize_key", k>>
ValueOp(v) == <<"serialize_value", v>>

\* The blob of the model.
Blob == <<1, 2>>

Scalars ==
    {VBool(TRUE), VBool(FALSE), VI64(-1), VF64(150), VChar("c"), VStr(<<"v">>),
     VUnit, VBytes(Blob), None}

InnerRecords == {VMap(<<>>), VMap(<<KeyOp(VStr(<<"k">>)), ValueOp(VStr(<<"v">>))>>)}

\* What the impl of a tuple struct may supply as a field.
FileFieldValues == {VStr(<<"c">>), VStr(<<"f">>), VBytes(Blob)}

\* Tuple structs: the ones that call themselves a form file, with any number
\* of fields, and ones that are not a form file or hold another composite.
Composites ==
    {VTupleStruct("$FormFile", 2, fs) :
         fs \in SeqsOf(FileFieldValues, 0, MaxFileFields)}
        \cup {VTupleStruct("Pair", 2, <<VStr(<<"c">>), VStr(<<"f">>)>>),
              VTupleStruct("$FormFile", 3, <<VStr(<<"c">>), VStr(<<"f">>), VStr(<<"f">>)>>),
              VTupleStruct("$FormFile", 2, <<FormFile(<<"c">>, <<"f">>), VStr(<<"f">>)>>),
              VTupleStruct("$FormFile", 2, <<VStr(<<"c">>), FormFile(<<"c">>, <<"f">>)>>),
              VTupleStruct("$FormFile", 2, <<VStr(<<"c">>), VMap(<<>>)>>)}

\* Sequences, tuples and enum variants that carry data.
OtherShapes ==
    {VSeq, VTuple, VTupleVariant, VStructVariant,
     VNewtypeVariant(<<"A">>, VStr(<<"v">>)),
     VNewtypeVariant(<<"A">>, VMap(<<>>))}

\* Values met at the root, as a key or as the value of a key.
SpecialValues ==
    {SomeNest(d, v) :
         d \in 0..MaxSomeDepth,
         v \in Scalars \cup InnerRecords \cup OtherShapes
                  \cup {FormFile(<<"c">>, <<"f">>)}}
        \cup Composites

RecordKeys == {VStr(<<"k">>), VStr(<<"j">>)}

SimpleValues ==
    {VStr(<<"v">>), VBool(TRUE), None, Some(VStr(<<"v">>)), FormFile(<<"c">>, <<"f">>),
     VMap(<<>>)}

SimpleEntries == RecordKeys \X SimpleValues

RECURSIVE EntryOps(_)
\* serialize_entry for each entry: serialize_key, then serialize_value.
EntryOps(es) ==
    IF Len(es) = 0 THEN <<>>
    ELSE <<KeyOp(es[1][1]), ValueOp(es[1][2])>> \o EntryOps(Tail(es))

\* Records of entries in any order and number, the same key twice included.
SimpleRecords ==
    {VMap(EntryOps(es)) : es \in SeqsOf(SimpleEntries, 0, MaxRecordEntries)}

\* Records that hold one of the special values, as a value (alone or before
\* another entry) or as a key.
SpecialRecords ==
    {VMap(<<KeyOp(VStr(<<"k">>)), ValueOp(x)>> \o rest) :
         x \in SpecialValues,
         rest \in {<<>>, <<KeyOp(VStr(<<"j">>)), ValueOp(VStr(<<"v">>))>>}}
        \cup {VMap(<<KeyOp(x), ValueOp(VStr(<<"v">>))>>) : x \in SpecialValues}

\* Impls that do not pair their keys and values.
UnpairedRecords ==
    {VMap(ops) :
         ops \in SeqsOf({KeyOp(VStr(<<"k">>)), ValueOp(VStr(<<"v">>))}, 0, MaxOps)}

RootValues ==
    SpecialValues \cup SimpleRecords \cup SpecialRecords \cup UnpairedRecords

FormJobs == {<<"to_form", v>> : v \in RootValues}

(***************************************************************************)
(* to_form as a state machine: one action for each Serializer method the   *)
(* value's impl calls.                                                     *)
(***************************************************************************)
InitForm ==
    /\ job \in FormJobs
    /\ pc = "start"
    /\ wire = None
    /\ out = None
    /\ ser = None
    /\ calls = <<>>

\* to_form on values whose impls use `?` on every call and on values whose
\* impls drop the errors they are handed.
InitFormAnyImpl ==
    /\ job \in FormJobs \cup {<<"to_form_unchecked", v>> : v \in RootValues}
    /\ pc = "start"
    /\ wire = None
    /\ out = None
    /\ ser = None
    /\ calls = <<>>

\* to_form: the default serializer, then value.serialize(&mut serializer).
ToForm ==
    /\ pc = "start"
    /\ ser' = FormSerializerDefault
    /\ calls' = <<<<"serialize", job[2]>>>>
    /\ pc' = "run"
    /\ UNCHANGED <<job, wire, out>>

\* The `?` after a call: an error ends to_form, otherwise the impl goes on
\* with the calls the method left it to make.  An impl that drops the errors
\* it is handed goes on with its next call; a panic ends everything.
Propagate(r, next) ==
    IF IsErr(r) /\ job[1] = "to_form_unchecked"
    THEN /\ calls' = Tail(calls)
         /\ UNCHANGED <<job, wire, out, pc, ser>>
    ELSE IF ~IsOk(r)
    THEN /\ out' = r
         /\ pc' = "done"
         /\ calls' = <<>>
         /\ UNCHANGED <<job, wire, ser>>
    ELSE /\ ser' = r[2]
         /\ calls' = next \o Tail(calls)
         /\ UNCHANGED <<job, wire, out, pc>>

\* The impl is about to serialize a value of this kind.
Serializing(tag) ==
    /\ pc = "run"
    /\ calls # <<>>
    /\ Head(calls)[1] = "serialize"
    /\ Head(calls)[2][1] = tag

\* The impl is about to make this call on the map or tuple struct.
Calling(method) ==
    /\ pc = "run"
    /\ calls # <<>>
    /\ Head(calls)[1] = method

CallSerializeBool ==
    /\ Serializing("Bool")
    /\ Propagate(SerializeFormString(ser, BoolToString(Head(calls)[2][2])), <<>>)

CallSerializeI64 ==
    /\ Serializing("I64")
    /\ Propagate(SerializeFormString(ser, IsizeToString(Head(calls)[2][2])), <<>>)

CallSerializeF64 ==
    /\ Serializing("F64")
    /\ Propagate(SerializeFormString(ser, F64ToString(Head(calls)[2][2])), <<>>)

CallSerializeChar ==
    /\ Serializing("Char")
    /\ Propagate(SerializeFormString(ser, <<Head(calls)[2][2]>>), <<>>)

CallSerializeStr ==
    /\ Serializing("Str")
    /\ Propagate(SerializeFormString(ser, Head(calls)[2][2]), <<>>)

CallSerializeBytes ==
    /\ Serializing("Bytes")
    /\ Propagate(SerializeFormBlob(ser, Head(calls)[2][2]), <<>>)

CallSerializeNone ==
    /\ Serializing("None")
    /\ Propagate(SerializeFormString(ser, <<"n", "u", "l", "l">>), <<>>)

CallSerializeSome ==
    /\ Serializing("Some")
    /\ Propagate(Ok(ser), <<<<"serialize", Head(calls)[2][2]>>>>)

CallSerializeUnit ==
    /\ Serializing("Unit")
    /\ Propagate(SerializeFormString(ser, <<"n", "u", "l", "l">>), <<>>)

CallSerializeSeq ==
    /\ Serializing("Seq")
    /\ Propagate(Err("can't serialize a sequence as multipart"), <<>>)

\* serialize_tuple is serialize_seq.
CallSerializeTuple ==
    /\ Serializing("Tuple")
    /\ Propagate(Err("can't serialize a sequence as multipart"), <<>>)

CallSerializeTupleVariant ==
    /\ Serializing("TupleVariant")
    /\ Propagate(Err("can't serialize a tuple variant as multipart"), <<>>)

CallSerializeStructVariant ==
    /\ Serializing("StructVariant")
    /\ Propagate(Err("can't serialize a struct variant as multipart"), <<>>)

\* serialize_map, then serialize_entry(variant, value) and end.
CallSerializeNewtypeVariant ==
    /\ Serializing("NewtypeVariant")
    /\ Propagate(SerializeMap(ser),
           <<KeyOp(VStr(Head(calls)[2][2])), ValueOp(Head(calls)[2][3]),
             <<"map_end">>>>)

CallSerializeTupleStruct ==
    /\ Serializing("TupleStruct")
    /\ LET v == Head(calls)[2]
       IN  Propagate(SerializeTupleStruct(ser, v[2], v[3]),
               [i \in 1..Len(v[4]) |-> <<"serialize_field", v[4][i]>>]
                   \o <<<<"tuple_struct_end">>>>)

CallSerializeMap ==
    /\ Serializing("Map")
    /\ Propagate(SerializeMap(ser), Head(calls)[2][2] \o <<<<"map_end">>>>)

CallSerializeField ==
    /\ Calling("serialize_field")
    /\ Propagate(SerializeTupleStructField(ser),
           <<<<"serialize", Head(calls)[2]>>>>)

CallTupleStructEnd ==
    /\ Calling("tuple_struct_end")
    /\ Propagate(SerializeTupleStructEnd(ser), <<>>)

CallSerializeKey ==
    /\ Calling("serialize_key")
    /\ Propagate(SerializeMapKey(ser), <<<<"serialize", Head(calls)[2]>>>>)

CallSerializeValue ==
    /\ Calling("serialize_value")
    /\ Propagate(SerializeMapValue(ser), <<<<"serialize", Head(calls)[2]>>>>)

CallMapEnd ==
    /\ Calling("map_end")
    /\ Propagate(SerializeMapEnd(ser), <<>>)

\* to_form: value.serialize returned Ok, the form is handed out.
ReturnForm ==
    /\ pc = "run"
    /\ calls = <<>>
    /\ out' = Ok(ser.form)
    /\ pc' = "done"
    /\ UNCHANGED <<job, wire, ser, calls>>

NextForm ==
    \/ ToForm
    \/ CallSerializeBool
    \/ CallSerializeI64
    \/ CallSerializeF64
    \/ CallSerializeChar
    \/ CallSerializeStr
    \/ CallSerializeBytes
    \/ CallSerializeNone
    \/ CallSerializeSome
    \/ CallSerializeUnit
    \/ CallSerializeSeq
    \/ CallSerializeTuple
    \/ CallSerializeTupleVariant
    \/ CallSerializeStructVariant
    \/ CallSerializeNewtypeVariant
    \/ CallSerializeTupleStruct
    \/ CallSerializeMap
    \/ CallSerializeField
    \/ CallTupleStructEnd
    \/ CallSerializeKey
    \/ CallSerializeValue
    \/ CallMapEnd
    \/ ReturnForm

SpecForm == InitForm /\ [][NextForm]_vars

SpecFormAnyImpl == InitFormAnyImpl /\ [][NextForm]_vars

(***************************************************************************)
(* What the claims about to_form speak of.                                 *)
(***************************************************************************)
RECURSIVE Unwrap(_)
\* The value inside any number of Some.
Unwrap(v) == IF v[1] = "Some" THEN Unwrap(v[2]) ELSE v

PlainTags == {"Bool", "I64", "F64", "Char", "Str", "Unit", "Bytes", "None"}

\* A NamedFile: the form file with its two strings.
IsNamedFile(v) ==
    /\ v[1] = "TupleStruct"
    /\ v[2] = "$FormFile" /\ v[3] = 2
    /\ Len(v[4]) = 2
    /\ v[4][1][1] = "Str" /\ v[4][2][1] = "Str"

\* A record whose impl makes its calls entry by entry: key, value, key, ...
IsEntryRecord(v) ==
    /\ v[1] = "Map"
    /\ Len(v[2]) % 2 = 0
    /\ \A i \in 1..Len(v[2]) :
           v[2][i][1] = (IF i % 2 = 1 THEN "serialize_key" ELSE "serialize_value")

EntryCount(v) == Len(v[2]) \div 2
EntryKey(v, i) == v[2][2 * i - 1][2]
EntryValue(v, i) == v[2][2 * i][2]

RECURSIVE MapCount(_), MapCountAll(_)
\* The records in a value, the value itself included; an enum variant with
\* a payload is written as a record of one entry.
MapCount(v) ==
    CASE v[1] = "Some" -> MapCount(v[2])
      [] v[1] = "Map" ->
             1 + MapCountAll([i \in 1..Len(v[2]) |-> v[2][i][2]])
      [] v[1] = "TupleStruct" -> MapCountAll(v[4])
      [] v[1] = "NewtypeVariant" -> 1 + MapCount(v[3])
      [] OTHER -> 0
MapCountAll(vs) ==
    IF Len(vs) = 0 THEN 0 ELSE MapCount(Head(vs)) + MapCountAll(Tail(vs))

\* C16 as stated: a scalar, unit, a blob, any Option or a NamedFile at the
\* top level fails with the not-map-like error.
NonRecordRootNotMapLike ==
    (pc = "done" /\ (job[2][1] \in PlainTags \cup {"Some"} \/ IsNamedFile(job[2])))
        => out = Err(TopLevelNotMap)

\* C16: with the Some wrappers taken off, a root that is a scalar, unit, a
\* blob or None fails with the not-map-like error and a NamedFile with the
\* tuple-struct-at-top-level error; Some of a record is encoded as the
\* record is.
RootRejectedUnlessRecord ==
    pc = "done" =>
        LET root == Unwrap(job[2])
        IN  /\ root[1] \in PlainTags => out = Err(TopLevelNotMap)
            /\ IsNamedFile(root) => out = Err(TupleStructAtTopLevel)
            /\ root \in InnerRecords =>
                   out = Ok(IF Len(root[2]) = 0 THEN <<>>
                            ELSE <<<<"Text", <<"k">>, <<"v">>>>>>)

RootRejectedUnlessRecordWitness ==
    /\ pc = "done"
    /\ \/ job[2] = Some(Some(VBytes(Blob))) /\ out = Err(TopLevelNotMap)
       \/ job[2] = Some(FormFile(<<"c">>, <<"f">>)) /\ out = Err(TupleStructAtTopLevel)

\* C17: whenever a record begins after the root record has begun, the
\* encoding fails with the nested-map error, and no encoding that succeeds
\* holds a record inside its root record.
NestedRecordRejected ==
    /\ [][(Serializing("Map") /\ ser.serializing_map)
              => out' = Err(NestedMap)]_vars
    /\ []((pc = "done" /\ IsOk(out)) => MapCount(job[2]) = 1)

NestedRecordRejectedWitness ==
    /\ pc = "done"
    /\ out = Err(NestedMap)
    /\ job[2] \in
           {VMap(<<KeyOp(Some(Some(VMap(<<>>)))), ValueOp(VStr(<<"v">>))>>),
            VMap(<<KeyOp(VStr(<<"k">>)), ValueOp(Some(VMap(<<>>)))>>)}

\* C18 as stated: a root record that encodes successfully gives exactly one
\* part for each entry, in the order of the entries, the i-th part under the
\* i-th key.
OnePartPerEntry ==
    (pc = "done" /\ IsOk(out) /\ IsEntryRecord(job[2])) =>
        /\ Len(out[2]) = EntryCount(job[2])
        /\ \A i \in 1..EntryCount(job[2]) :
               (i <= Len(out[2]) /\ EntryKey(job[2], i)[1] = "Str")
                   => out[2][i][2] = EntryKey(job[2], i)[2]

\* C19: a NamedFile under key k gives one file part with key k, the first
\* string as body and the second as file name; once the file composite has
\* ended the encoder is in the record with no key pending, and the entries
\* after it are encoded as usual.
NamedFilePart ==
    /\ (/\ pc = "run" /\ calls # <<>>
        /\ Head(calls)[1] \in {"serialize_key", "map_end"}
        /\ Len(ser.form) > 0
        /\ ser.form[Len(ser.form)][1] = "File")
           => /\ ser.serializing_map
              /\ ~ser.serializing_file
              /\ ser.current_key = None
              /\ ser.current_file_contents = None
    /\ (/\ pc = "done"
        /\ IsEntryRecord(job[2])
        /\ \A i \in 1..EntryCount(job[2]) :
               /\ EntryKey(job[2], i)[1] = "Str"
               /\ IsNamedFile(EntryValue(job[2], i))
                      \/ EntryValue(job[2], i)[1] = "Str")
           => /\ IsOk(out)
              /\ Len(out[2]) = EntryCount(job[2])
              /\ \A i \in 1..EntryCount(job[2]) :
                     LET k == EntryKey(job[2], i)[2]
                         v == EntryValue(job[2], i)
                     IN  out[2][i] =
                             IF v[1] = "Str" THEN <<"Text", k, v[2]>>
                             ELSE <<"File", k, v[4][1][2], v[4][2][2]>>

NamedFilePartWitness ==
    /\ pc = "done"
    /\ job[2] = VMap(<<KeyOp(VStr(<<"k">>)), ValueOp(FormFile(<<"c">>, <<"f">>)),
                       KeyOp(VStr(<<"j">>)), ValueOp(VStr(<<"v">>))>>)
    /\ out = Ok(<<<<"File", <<"k">>, <<"c">>, <<"f">>>>, <<"Text", <<"j">>, <<"v">>>>>>)

\* C20 as stated: a file composite is accepted only when exactly two string
\* fields are supplied before it ends; with fewer or with more the encoding
\* fails.
FileCompositeExactlyTwo ==
    (/\ pc = "done" /\ IsOk(out)
     /\ IsEntryRecord(job[2]) /\ EntryCount(job[2]) > 0
     /\ EntryValue(job[2], 1)[1] = "TupleStruct")
        => IsNamedFile(EntryValue(job[2], 1))

\* C21: a scalar under a key gives one text part holding the scalar's literal
\* text: "true" or "false", the decimal text of a number, the one character
\* of a char, a string as it is, "null" for None and unit; Some(x) gives what
\* x gives.
ScalarTextPart ==
    (/\ pc \in {"run", "done"}
     /\ IsEntryRecord(job[2]) /\ EntryCount(job[2]) > 0
     /\ EntryKey(job[2], 1) = VStr(<<"k">>)
     /\ Unwrap(EntryValue(job[2], 1))[1] \in PlainTags \ {"Bytes"})
        => LET x == Unwrap(EntryValue(job[2], 1))
               text ==
                   CASE x[1] = "Bool" -> IF x[2] THEN <<"t", "r", "u", "e">> ELSE <<"f", "a", "l", "s", "e">>
                     [] x[1] = "I64" /\ x[2] = -1 -> <<"-", "1">>
                     [] x[1] = "F64" /\ x[2] = 150 -> <<"1", ".", "5">>
                     [] x[1] = "Char" -> <<x[2]>>
                     [] x[1] = "Str" -> x[2]
                     [] x[1] \in {"Unit", "None"} -> <<"n", "u", "l", "l">>
           IN  /\ Len(ser.form) > 0 => ser.form[1] = <<"Text", <<"k">>, text>>
               /\ (pc = "done" /\ EntryCount(job[2]) = 1)
                      => out = Ok(<<<<"Text", <<"k">>, text>>>>)

ScalarTextPartWitness ==
    /\ pc = "done"
    /\ \/ /\ job[2] = VMap(<<KeyOp(VStr(<<"k">>)), ValueOp(Some(Some(None)))>>)
          /\ out = Ok(<<<<"Text", <<"k">>, <<"n", "u", "l", "l">>>>>>)
       \/ /\ job[2] = VMap(<<KeyOp(VStr(<<"k">>)), ValueOp(Some(VF64(150)))>>)
          /\ out = Ok(<<<<"Text", <<"k">>, <<"1", ".", "5">>>>>>)

\* A tuple struct that does not declare itself the two-field form file.
IsOtherTupleStruct(v) ==
    v[1] = "TupleStruct" /\ (v[2] # "$FormFile" \/ v[3] # 2)

RejectedTags == {"Seq", "Tuple", "TupleVariant", "StructVariant"}

\* The root of the job is x, or its root record has x as first key or as the
\* value of its first key.
AtRoot(x) == job[2] = x
InRootRecord(x) ==
    /\ job[2][1] = "Map" /\ Len(job[2][2]) > 0
    /\ job[2][2][1][1] = "serialize_key"
    /\ \/ job[2][2][1][2] = x
       \/ /\ Len(job[2][2]) > 1
          /\ job[2][2][1][2] = VStr(<<"k">>)
          /\ job[2][2][2] = ValueOp(x)

\* C22 as stated: sequences, tuples, tuple structs other than the form file,
\* tuple variants, struct variants and variants with a payload are rejected
\* at the root, as a key and as a value.
OtherShapesRejected ==
    pc = "done" =>
        \A x \in SpecialValues :
            (/\ \/ Unwrap(x)[1] \in RejectedTags \cup {"NewtypeVariant"}
                \/ IsOtherTupleStruct(Unwrap(x))
             /\ AtRoot(x) \/ InRootRecord(x))
                => IsErr(out)

\* C22: sequences, tuples, tuple structs other than the form file, tuple
\* variants and struct variants are rejected at the root, as a key and as a
\* value; a variant with a payload is rejected as a key and as a value, with
\* the nested-map error, and at the root it is written as the record of one
\* entry {variant: payload}.
OtherShapesRejectedButRootVariant ==
    pc = "done" =>
        \A x \in SpecialValues :
            /\ (/\ \/ Unwrap(x)[1] \in RejectedTags
                   \/ IsOtherTupleStruct(Unwrap(x))
                /\ AtRoot(x) \/ InRootRecord(x))
                   => IsErr(out)
            /\ (Unwrap(x)[1] = "NewtypeVariant" /\ InRootRecord(x))
                   => out = Err(NestedMap)
            /\ (Unwrap(x)[1] = "NewtypeVariant" /\ AtRoot(x))
                   => IF Unwrap(x)[3][1] = "Map" THEN out = Err(NestedMap)
                      ELSE out = Ok(<<<<"Text", Unwrap(x)[2], Unwrap(x)[3][2]>>>>)

OtherShapesRejectedButRootVariantWitness ==
    /\ pc = "done"
    /\ \/ /\ job[2] = Some(VNewtypeVariant(<<"A">>, VStr(<<"v">>)))
          /\ out = Ok(<<<<"Text", <<"A">>, <<"v">>>>>>)
       \/ /\ job[2] = VMap(<<KeyOp(VStr(<<"k">>)),
                             ValueOp(VTupleStruct("Pair", 2, <<VStr(<<"c">>), VStr(<<"f">>)>>))>>)
          /\ out = Err("only form file can be serialized as tuple struct")

\* The first call of a record that is out of turn, 0 when keys and values
\* alternate from a key on.
FirstOutOfTurn(ops) ==
    LET bad == {i \in 1..Len(ops) :
                    ops[i][1] # (IF i % 2 = 1 THEN "serialize_key"
                                 ELSE "serialize_value")}
    IN  IF bad = {} THEN 0 ELSE CHOOSE i \in bad : \A j \in bad : i <= j

\* C23: in a record of string keys and string values, a key offered while a
\* key is pending is the two-keys error, a value offered while none is
\* pending the value-without-key error, the end of the record while a key is
\* pending the missing-value error; the record is accepted exactly when keys
\* and values alternate from a key on.
KeyValueProtocol ==
    (/\ pc = "done"
     /\ job[2][1] = "Map"
     /\ \A i \in 1..Len(job[2][2]) : job[2][2][i][2][1] = "Str")
        => LET ops == job[2][2]
               n == FirstOutOfTurn(ops)
           IN  /\ IsOk(out) <=> (n = 0 /\ Len(ops) % 2 = 0)
               /\ (n # 0 /\ ops[n][1] = "serialize_key")
                      => out = Err("can't serialize two keys in a row without a value")
               /\ (n # 0 /\ ops[n][1] = "serialize_value")
                      => out = Err("can't serialize value without first serializing a key")
               /\ (n = 0 /\ Len(ops) % 2 = 1)
                      => out = Err("missing value after key")

KeyValueProtocolWitness ==
    /\ pc = "done"
    /\ \/ /\ job[2] = VMap(<<KeyOp(VStr(<<"k">>)), ValueOp(VStr(<<"v">>)), KeyOp(VStr(<<"k">>))>>)
          /\ out = Err("missing value after key")
       \/ /\ job[2] = VMap(<<KeyOp(VStr(<<"k">>)), KeyOp(VStr(<<"k">>))>>)
          /\ out = Err("can't serialize two keys in a row without a value")
       \/ /\ job[2] = VMap(<<KeyOp(VStr(<<"k">>)), ValueOp(VStr(<<"v">>)), ValueOp(VStr(<<"v">>))>>)
          /\ out = Err("can't serialize value without first serializing a key")

\* C24: to_form never panics: whatever calls the value's impl makes, and
\* whether or not it heeds the errors it is handed, the end of a file
\* composite is reached only with serializing_map and serializing_file both
\* set, and to_form returns a Form or an error.
NeverPanics ==
    /\ Calling("tuple_struct_end")
           => ser.serializing_map /\ ser.serializing_file
    /\ pc = "done" => IsOk(out) \/ IsErr(out)

NeverPanicsWitness ==
    /\ Calling("tuple_struct_end")
    /\ job[1] = "to_form_unchecked"
    /\ ser.current_key # None
    /\ Len(ser.form) > 0

(***************************************************************************)
(* The three closed enumerations and their tokens, as a state machine:     *)
(* a variant is displayed and read back, or a received text is read.       *)
(***************************************************************************)
EnumNames == {"Residue", "InteractionMainType", "InteractionSubType"}

\* The serde names of an enum's variants.
TokensOfEnum(e) ==
    CASE e = "Residue" -> ResidueTokens
      [] e = "InteractionMainType" -> InteractionMainTokens
      [] e = "InteractionSubType" -> InteractionSubTokens

EnumTokenTexts ==
    UNION {{TokensOfEnum(e)[i][2] : i \in 1..Len(TokensOfEnum(e))} : e \in EnumNames}

UpperLetters ==
    <<"A", "B", "C", "D", "E", "F", "G", "H", "I", "J", "K", "L", "M",
      "N", "O", "P", "Q", "R", "S", "T", "U", "V", "W", "X", "Y", "Z">>
LowerLetters ==
    <<"a", "b", "c", "d", "e", "f", "g", "h", "i", "j", "k", "l", "m",
      "n", "o", "p", "q", "r", "s", "t", "u", "v", "w", "x", "y", "z">>

\* The text with the letters from position `from` on in lower case.
LowerFrom(s, from) ==
    [i \in 1..Len(s) |->
        IF i >= from /\ \E k \in 1..26 : UpperLetters[k] = s[i]
        THEN LowerLetters[CHOOSE k \in 1..26 : UpperLetters[k] = s[i]]
        ELSE s[i]]

\* Received texts: every token, the tokens in other letter cases, cut short
\* and drawn out, and the names of some variants.
ReceivedTokenTexts ==
    EnumTokenTexts
        \cup {LowerFrom(s, 1) : s \in EnumTokenTexts}
        \cup {LowerFrom(s, 2) : s \in EnumTokenTexts}
        \cup {SubSeq(s, 1, Len(s) - 1) : s \in EnumTokenTexts}
        \cup {s \o <<" ">> : s \in EnumTokenTexts}
        \cup {<<"U", "n", "k", "n", "o", "w", "n">>, <<"u", "n", "k", "n", "o", "w", "n">>, <<"U", "N", "K">>, <<"?", "?", "?">>}

TokenJobs ==
    UNION {{<<"render", e, TokensOfEnum(e)[i][1]>> :
                i \in 1..Len(TokensOfEnum(e))} : e \in EnumNames}
        \cup {<<"parse", e, s>> : e \in EnumNames, s \in ReceivedTokenTexts}

\* impl Display for Residue, InteractionMainType, InteractionSubType
EnumDisplay(e, v) ==
    CASE e = "Residue" -> ResidueDisplay(v)
      [] e = "InteractionMainType" -> InteractionMainTypeDisplay(v)
      [] e = "InteractionSubType" -> InteractionSubTypeDisplay(v)

\* impl FromStr for Residue, InteractionMainType, InteractionSubType
EnumFromStr(e, s) ==
    CASE e = "Residue" -> ResidueFromStr(s)
      [] e = "InteractionMainType" -> InteractionMainTypeFromStr(s)
      [] e = "InteractionSubType" -> InteractionSubTypeFromStr(s)

InitToken ==
    /\ job \in TokenJobs
    /\ pc = "start"
    /\ wire = None
    /\ out = None
    /\ ser = None
    /\ calls = <<>>

RenderToken ==
    /\ pc = "start" /\ job[1] = "render"
    /\ wire' = EnumDisplay(job[2], job[3])
    /\ pc' = "wire"
    /\ UNCHANGED <<job, out, ser, calls>>

ReceiveToken ==
    /\ pc = "start" /\ job[1] = "parse"
    /\ wire' = job[3]
    /\ pc' = "wire"
    /\ UNCHANGED <<job, out, ser, calls>>

ParseToken ==
    /\ pc = "wire"
    /\ out' = EnumFromStr(job[2], wire)
    /\ pc' = "done"
    /\ UNCHANGED <<job, wire, ser, calls>>

NextToken == RenderToken \/ ReceiveToken \/ ParseToken

SpecToken == InitToken /\ [][NextToken]_vars

\* The tokens of an enum, as a set.
TokenSet(e) == {TokensOfEnum(e)[i][2] : i \in 1..Len(TokensOfEnum(e))}

\* C25: each enum has one token for each variant and no token twice (32
\* residue tokens of three letters, 6 main tokens, 3 subtype tokens); a text
\* that is not exactly a token of the enum, a token in another letter case
\* included, is a decode error, and only "XAA" is read as Residue::Unknown.
TokensExact ==
    /\ Cardinality(TokenSet("Residue")) = 32 /\ Cardinality(Residue) = 32
    /\ Cardinality(TokenSet("InteractionMainType")) = 6
    /\ Cardinality(InteractionMainType) = 6
    /\ Cardinality(TokenSet("InteractionSubType")) = 3
    /\ Cardinality(InteractionSubType) = 3
    /\ (pc # "start" /\ job[1] = "render" /\ job[2] = "Residue")
           => Len(wire) = 3
    /\ (pc = "done" /\ job[1] = "render") => out = Ok(job[3])
    /\ (pc = "done" /\ job[1] = "parse")
           => /\ IsOk(out) <=> wire \in TokenSet(job[2])
              /\ ~IsOk(out) => IsErr(out)
              /\ out = Ok("Unknown") => (job[2] = "Residue" /\ wire = <<"X", "A", "A">>)

TokensExactWitness ==
    /\ pc = "done" /\ job[1] = "parse" /\ job[2] = "Residue"
    /\ \/ wire = <<"x", "a", "a">> /\ IsErr(out)
       \/ wire = <<"U", "n", "k", "n", "o", "w", "n">> /\ IsErr(out)
       \/ wire = <<"A", "l", "a">> /\ IsErr(out)

(***************************************************************************)
(* client.rs: Client::send.  The job is the request's body,                *)
(* <<kind, value>>; `wire` is the body set on the request builder, None    *)
(* while there is none; to_form runs as the state machine above.           *)
(***************************************************************************)
\* enum RequestBody
BodyKinds == {"None", "Json", "Query", "Form", "Multipart"}

SendJobs ==
    {<<kind, v>> : kind \in BodyKinds, v \in SpecialValues \cup SpecialRecords}

\* send: the builder with method, url and headers, no body yet.
InitSend ==
    /\ job \in SendJobs
    /\ pc = "request"
    /\ wire = None
    /\ out = None
    /\ ser = None
    /\ calls = <<>>

\* A ring_body that hands a Form body to the multipart encoder too.
RingBodyEncodingForm ==
    /\ pc = "request" /\ job[1] # "Multipart"
    /\ IF job[1] = "Form"
       THEN pc' = "start" /\ wire' = wire
       ELSE /\ pc' = "built"
            /\ wire' = IF job[1] = "None" THEN None ELSE <<job[1], job[2]>>
    /\ UNCHANGED <<job, out, ser, calls>>

\* ring_body for None, Json, Query and Form: the builder takes the value.
RingBody ==
    /\ pc = "request" /\ job[1] # "Multipart"
    /\ pc' = "built"
    /\ wire' = IF job[1] = "None" THEN None ELSE <<job[1], job[2]>>
    /\ UNCHANGED <<job, out, ser, calls>>

\* ring_body for Multipart: to_form(&value) is called.
RingBodyMultipart ==
    /\ pc = "request" /\ job[1] = "Multipart"
    /\ pc' = "start"
    /\ UNCHANGED <<job, wire, out, ser, calls>>

\* to_form has returned: `?` hands its error out of ring_body and of send,
\* otherwise the form is set as the body.
RingBodyFormReturned ==
    /\ pc = "done"
    /\ IF IsOk(out)
       THEN pc' = "built" /\ wire' = <<"Multipart", out[2]>>
       ELSE pc' = "failed" /\ wire' = wire
    /\ UNCHANGED <<job, out, ser, calls>>

\* send: the request goes out and the answer, or the transport's error, is
\* returned.
Transmit ==
    /\ pc = "built"
    /\ pc' = "answered"
    /\ out' \in {Ok(<<"Response">>), Err("Reqwest")}
    /\ UNCHANGED <<job, wire, ser, calls>>

NextSend ==
    \/ RingBody
    \/ RingBodyMultipart
    \/ NextForm
    \/ RingBodyFormReturned
    \/ Transmit

SpecSend == InitSend /\ [][NextSend]_vars

\* C26: the encoder runs exactly for a Multipart body; the form it returns
\* is the body that is sent; when it fails, send returns its error and
\* nothing is transmitted.
EncoderOnlyForMultipart ==
    /\ [](pc \in {"start", "run", "done", "failed"} => job[1] = "Multipart")
    /\ []((pc \in {"built", "answered"} /\ job[1] = "Multipart")
              => (wire[1] = "Multipart" /\ Len(calls) = 0))
    /\ []((pc = "built" /\ job[1] = "Multipart") => out = Ok(wire[2]))
    /\ []((pc \in {"built", "answered"} /\ job[1] # "Multipart")
              => wire = (IF job[1] = "None" THEN None ELSE <<job[1], job[2]>>))
    /\ [](pc = "failed" => (IsErr(out) /\ wire = None))
    /\ [][(pc = "done" /\ IsErr(out)) => (pc' = "failed" /\ out' = out)]_vars
    /\ [][pc = "failed" => pc' = "failed"]_vars
    /\ [][pc' = "answered" => pc = "built"]_vars

EncoderOnlyForMultipartWitness ==
    /\ pc = "failed"
    /\ job = <<"Multipart", VMap(<<KeyOp(VStr(<<"k">>)), ValueOp(VMap(<<>>))>>)>>
    /\ out = Err(NestedMap)

(***************************************************************************)
(* requests/submit.rs: the PDB ID taken from a file name or from the       *)
(* HEADER of a structure.  Each regex is written as the set of its         *)
(* matches; whitespace is the space, the tab and the line feed.            *)
(***************************************************************************)
\* \s
IsSpace(c) == c \in {" ", "\t", "\n"}

\* (?i)[1-9][0-9A-Z]{3} at position d of a text already in lower case
IsPdbIdAt(lower, d) ==
    /\ d >= 1 /\ d + 3 <= Len(lower)
    /\ IsDigit(lower[d]) /\ lower[d] # "0"
    /\ \A j \in (d + 1)..(d + 3) :
           IsDigit(lower[j]) \/ \E k \in 1..26 : LowerLetters[k] = lower[j]

\* A file name pattern that wants .gz before the extension.
FileNameShapeGzFirst(lower, a, p, e, g) ==
    LET d == a + p + 1
    IN  /\ d + 3 + e + g <= Len(lower)
        /\ \A j \in 1..a : IsSpace(lower[j])
        /\ p = 3 => SubSeq(lower, a + 1, a + 3) = <<"p", "d", "b">>
        /\ IsPdbIdAt(lower, d)
        /\ g = 3 => SubSeq(lower, d + 4, d + 6) = <<".", "g", "z">>
        /\ e = 4 => SubSeq(lower, d + 4 + g, d + 7 + g) \in {<<".", "e", "n", "t">>, <<".", "p", "d", "b">>, <<".", "c", "i", "f">>}
        /\ \A j \in (d + 4 + e + g)..Len(lower) : IsSpace(lower[j])

\* (?i)^\s*(?:pdb)?(?P<pdbid>...)(?:\.(?:ent|pdb|cif))?(?:\.gz)?\s*$ with a
\* characters of leading whitespace, a prefix of p, an extension of e and a
\* .gz of g characters.
FileNameShape(lower, a, p, e, g) ==
    LET d == a + p + 1
    IN  /\ d + 3 + e + g <= Len(lower)
        /\ \A j \in 1..a : IsSpace(lower[j])
        /\ p = 3 => SubSeq(lower, a + 1, a + 3) = <<"p", "d", "b">>
        /\ IsPdbIdAt(lower, d)
        /\ e = 4 => SubSeq(lower, d + 4, d + 7) \in {<<".", "e", "n", "t">>, <<".", "p", "d", "b">>, <<".", "c", "i", "f">>}
        /\ g = 3 => SubSeq(lower, d + 4 + e, d + 6 + e) = <<".", "g", "z">>
        /\ \A j \in (d + 4 + e + g)..Len(lower) : IsSpace(lower[j])

\* pdb_id_from_file_name: the capture, in lower case.
PdbIdFromFileName(file_name) ==
    LET lower == LowerFrom(file_name, 1)
        starts == {a + p + 1 : a \in 0..Len(lower), p \in {0, 3}}
        found == {d \in starts :
                     \E a \in 0..Len(lower), p \in {0, 3}, e \in {0, 4}, g \in {0, 3} :
                         d = a + p + 1 /\ FileNameShape(lower, a, p, e, g)}
    IN  IF found = {} THEN None
        ELSE LET d == CHOOSE x \in found : \A y \in found : x <= y
             IN  Some(SubSeq(lower, d, d + 3))

\* (?im)^\s*HEADER\s+.*(?P<pdbid>...)\s*$ with HEADER at h and the ID at d.
HeaderShape(s, lower, h, d) ==
    /\ h >= 1 /\ h + 5 <= Len(s)
    /\ SubSeq(lower, h, h + 5) = <<"h", "e", "a", "d", "e", "r">>
    /\ \E i \in 1..h :
           /\ i = 1 \/ s[i - 1] = "\n"
           /\ \A j \in i..(h - 1) : IsSpace(s[j])
    /\ IsPdbIdAt(lower, d)
    /\ \E r \in (h + 7)..d :
           /\ \A j \in (h + 6)..(r - 1) : IsSpace(s[j])
           /\ \A j \in r..(d - 1) : s[j] # "\n"
    /\ \E e \in (d + 3)..Len(s) :
           /\ \A j \in (d + 4)..e : IsSpace(s[j])
           /\ e = Len(s) \/ s[e + 1] = "\n"

\* pdb_id_from_header: the capture of the leftmost match, in lower case.
PdbIdFromHeader(header) ==
    LET lower == LowerFrom(header, 1)
        found == {m \in (1..Len(header)) \X (1..Len(header)) :
                     HeaderShape(header, lower, m[1], m[2])}
    IN  IF found = {} THEN None
        ELSE LET m == CHOOSE x \in found :
                          \A y \in found :
                              x[1] < y[1] \/ (x[1] = y[1] /\ x[2] >= y[2])
             IN  Some(SubSeq(lower, m[2], m[2] + 3))

(***************************************************************************)
(* The inputs of the two functions and the functions as a state machine.   *)
(***************************************************************************)
MaxNamePieces == 4
MaxHeaderPieces == 5

RECURSIVE Concat(_)
\* The pieces one after the other.
Concat(ps) == IF Len(ps) = 0 THEN <<>> ELSE Head(ps) \o Concat(Tail(ps))

FileNamePieces ==
    {<<" ">>, <<"p", "d", "b">>, <<"1", "j", "s", "u">>, <<"9", "M", "W", "8">>, <<"2", "6", "x", "7", "8">>, <<"l", "o", "l">>, <<".", "e", "n", "t">>, <<".", "P", "D", "B">>, <<".", "c", "i", "f">>, <<".", "g", "z">>}

HeaderPieces ==
    {<<" ">>, <<"\n">>, <<"H", "E", "A", "D", "E", "R">>, <<"h", "e", "a", "d", "e", "r">>, <<"1", "J", "S", "U">>, <<"x">>, <<"T", "I", "T", "L", "E">>}

PdbIdJobs ==
    {<<"file_name", ps>> : ps \in SeqsOf(FileNamePieces, 0, MaxNamePieces)}
        \cup {<<"header", ps>> : ps \in SeqsOf(HeaderPieces, 0, MaxHeaderPieces)}

InitPdbId ==
    /\ job \in PdbIdJobs
    /\ pc = "start"
    /\ wire = None
    /\ out = None
    /\ ser = None
    /\ calls = <<>>

\* The file name or the structure text is handed over.
ReceivePdbText ==
    /\ pc = "start"
    /\ wire' = Concat(job[2])
    /\ pc' = "wire"
    /\ UNCHANGED <<job, out, ser, calls>>

CallPdbIdFromFileName ==
    /\ pc = "wire" /\ job[1] = "file_name"
    /\ out' = PdbIdFromFileName(wire)
    /\ pc' = "done"
    /\ UNCHANGED <<job, wire, ser, calls>>

CallPdbIdFromHeader ==
    /\ pc = "wire" /\ job[1] = "header"
    /\ out' = PdbIdFromHeader(wire)
    /\ pc' = "done"
    /\ UNCHANGED <<job, wire, ser, calls>>

NextPdbId == ReceivePdbText \/ CallPdbIdFromFileName \/ CallPdbIdFromHeader

SpecPdbId == InitPdbId /\ [][NextPdbId]_vars

(***************************************************************************)
(* Claims about the PDB ID heuristics.                                     *)
(***************************************************************************)
\* The ID pieces of the file names and the ID each one stands for.
IdOfPiece(p) == IF p = <<"9", "M", "W", "8">> THEN <<"9", "m", "w", "8">> ELSE p

\* The pieces are: whitespace, an optional pdb, the ID at k, an optional
\* extension, an optional .gz, whitespace.
NameInOrder(ps, k) ==
    /\ ps[k] \in {<<"1", "j", "s", "u">>, <<"9", "M", "W", "8">>}
    /\ \E a \in 0..(k - 1) :
           /\ \A j \in 1..a : ps[j] = <<" ">>
           /\ a = k - 1 \/ (a = k - 2 /\ ps[k - 1] = <<"p", "d", "b">>)
    /\ \E e \in {0, 1}, g \in {0, 1} :
           /\ k + e + g <= Len(ps)
           /\ e = 1 => ps[k + 1] \in {<<".", "e", "n", "t">>, <<".", "P", "D", "B">>, <<".", "c", "i", "f">>}
           /\ g = 1 => ps[k + e + 1] = <<".", "g", "z">>
           /\ \A j \in (k + e + g + 1)..Len(ps) : ps[j] = <<" ">>

\* C27: pdb_id_from_file_name returns Some(id in lower case) exactly when the
\* whole file name, ignoring surrounding whitespace and letter case, is an
\* optional pdb prefix, a 4-character ID, an optional .ent/.pdb/.cif and an
\* optional .gz in that order, and None for every other name.
FileNameRule ==
    (pc = "done" /\ job[1] = "file_name") =>
        IF \E k \in 1..Len(job[2]) : NameInOrder(job[2], k)
        THEN \E k \in 1..Len(job[2]) :
                 NameInOrder(job[2], k) /\ out = Some(IdOfPiece(job[2][k]))
        ELSE out = None

FileNameRuleWitness ==
    /\ pc = "done"
    /\ job = <<"file_name", <<<<"p", "d", "b">>, <<"9", "M", "W", "8">>, <<".", "P", "D", "B">>, <<".", "g", "z">>>>>>
    /\ out = Some(<<"9", "m", "w", "8">>)

\* The line of s from b to z holds, after optional whitespace, HEADER in any
\* case followed by whitespace, and ends, but for whitespace, with the ID at d.
HeaderLineAt(s, b, z, d) ==
    LET lower == LowerFrom(s, 1)
    IN  /\ b = 1 \/ s[b - 1] = "\n"
        /\ z = Len(s) \/ s[z + 1] = "\n"
        /\ \A j \in b..z : s[j] # "\n"
        /\ \E a \in b..z :
               /\ \A j \in b..(a - 1) : IsSpace(s[j])
               /\ a + 6 <= z
               /\ SubSeq(lower, a, a + 5) = <<"h", "e", "a", "d", "e", "r">>
               /\ IsSpace(s[a + 6])
               /\ d >= a + 7
        /\ d + 3 <= z
        /\ IsPdbIdAt(lower, d)
        /\ \A j \in (d + 4)..z : IsSpace(s[j])

\* The IDs of the HEADER lines of s, in lower case.
HeaderLineIds(s) ==
    {SubSeq(LowerFrom(s, 1), d, d + 3) :
        d \in {x \in 1..Len(s) :
                  \E b \in 1..Len(s), z \in 1..Len(s) : HeaderLineAt(s, b, z, x)}}

\* C28: pdb_id_from_header returns Some(id in lower case) when some line of
\* the text begins, after optional whitespace and in any letter case, with
\* HEADER followed by whitespace and ends, ignoring trailing whitespace, with
\* a 4-character ID; it returns None when the text has no such HEADER line.
HeaderLineRule ==
    (pc = "done" /\ job[1] = "header") =>
        IF HeaderLineIds(wire) # {}
        THEN \E id \in HeaderLineIds(wire) : out = Some(id)
        ELSE out = None

\* A HEADER line and an ID line apart, and an ID all the same.
HeaderLineRuleBroken ==
    /\ pc = "done"
    /\ job = <<"header", <<<<"H", "E", "A", "D", "E", "R">>, <<"\n">>, <<"1", "J", "S", "U">>>>>>
    /\ out = Some(<<"1", "j", "s", "u">>)

\* The part of C28 about texts that do have such a line.
HeaderLineFound ==
    (pc = "done" /\ job[1] = "header" /\ HeaderLineIds(wire) # {}) =>
        \E id \in HeaderLineIds(wire) : out = Some(id)

(***************************************************************************)
(* The two codecs the other way round: a received text is parsed and the   *)
(* value is rendered again, as when a response is decoded and re-encoded.  *)
(***************************************************************************)
MaxPosDigits == 2

\* Position fields: an optional sign and up to MaxPosDigits digits.
PositionTexts ==
    {sign \o ds : sign \in {<<>>, <<"+">>, <<"-">>},
                  ds \in SeqsOf({"0", "1", "9"}, 1, MaxPosDigits)}

ResidueTexts ==
    {ResidueTokens[i][2] : i \in 1..Len(ResidueTokens)} \cup {<<"x", "a", "a">>}

ReverseNodeIdTexts ==
    {Join(<<c, p, i, r>>, <<":">>) :
        c \in {<<"A">>, <<"_">>, <<>>}, p \in PositionTexts, i \in {<<"A">>, <<"-">>},
        r \in ResidueTexts}

ReverseInteractionTexts ==
    {m \o d1 \o a \o d2 \o b :
        m \in {InteractionMainTokens[i][2] : i \in 1..Len(InteractionMainTokens)}
                  \cup {<<"h", "b", "o", "n", "d">>},
        d1 \in {<<":">>, <<"_">>},
        a \in {InteractionSubTokens[i][2] : i \in 1..Len(InteractionSubTokens)},
        d2 \in {<<"_">>, <<":">>, <<>>},
        b \in {InteractionSubTokens[i][2] : i \in 1..Len(InteractionSubTokens)}
                  \cup {<<"s", "c">>}}

ReverseJobs ==
    {<<"node_id", s>> : s \in ReverseNodeIdTexts}
        \cup {<<"interaction", s>> : s \in ReverseInteractionTexts}

InitReverse ==
    /\ job \in ReverseJobs
    /\ pc = "start"
    /\ wire = None
    /\ out = None
    /\ ser = None
    /\ calls = <<>>

ReceiveText ==
    /\ pc = "start"
    /\ wire' = job[2]
    /\ pc' = "wire"
    /\ UNCHANGED <<job, out, ser, calls>>

VisitNodeIdText ==
    /\ pc = "wire" /\ job[1] = "node_id"
    /\ out' = NodeIdFromStr(wire)
    /\ pc' = "parsed"
    /\ UNCHANGED <<job, wire, ser, calls>>

VisitInteractionText ==
    /\ pc = "wire" /\ job[1] = "interaction"
    /\ out' = InteractionFromStr(wire)
    /\ pc' = "parsed"
    /\ UNCHANGED <<job, wire, ser, calls>>

CollectNodeId ==
    /\ pc = "parsed" /\ job[1] = "node_id" /\ IsOk(out)
    /\ wire' = NodeIdDisplay(out[2])
    /\ pc' = "done"
    /\ UNCHANGED <<job, out, ser, calls>>

CollectInteraction ==
    /\ pc = "parsed" /\ job[1] = "interaction" /\ IsOk(out)
    /\ wire' = InteractionDisplay(out[2])
    /\ pc' = "done"
    /\ UNCHANGED <<job, out, ser, calls>>

NextReverse ==
    \/ ReceiveText
    \/ VisitNodeIdText
    \/ VisitInteractionText
    \/ CollectNodeId
    \/ CollectInteraction

SpecReverse == InitReverse /\ [][NextReverse]_vars

(***************************************************************************)
(* Claims about the reverse round trip.                                    *)
(***************************************************************************)
\* C29 as stated: for every text s that parse_node_id or parse_interaction
\* accepts, rendering the parsed value gives s again.
ReverseRoundTrip == pc = "done" => wire = job[2]

\* A position is written the way isize is displayed: no '+', no leading
\* zero, no negative zero.
PlainPosition(p) ==
    LET body == IF p[1] = "-" THEN Tail(p) ELSE p
    IN  /\ p[1] # "+"
        /\ Len(body) = 1 \/ body[1] # "0"
        /\ p # <<"-", "0">>

\* C29, amended: for every text s that parse_interaction accepts, and for
\* every text s that parse_node_id accepts whose position field has no '+',
\* no leading zero and is not "-0", rendering the parsed value gives s again.
ReverseRoundTripPlainPosition ==
    (pc = "done"
        /\ (job[1] = "node_id" => PlainPosition(Split(job[2], ":")[2]))) =>
        wire = job[2]

ReverseRoundTripPlainPositionWitness ==
    /\ pc = "done"
    /\ job = <<"node_id", <<"_", ":", "-", "1", "9", ":", "A", ":", "A", "L", "A">>>>
    /\ wire = <<"_", ":", "-", "1", "9", ":", "A", ":", "A", "L", "A">>

(***************************************************************************)
(* Claims about the flag keys of a received Settings map.                  *)
(***************************************************************************)
\* The interaction type each flag key stands for.
InteractionOfKey(key) ==
    CASE key = "allEdges" -> "All"
      [] key = "onlyFirstEdge" -> "MostEnergetic"
      [] key = "nospecific" -> "NoSpecific"

\* C30: on decode the flag keys act by presence only: a map holding msa with
\* any string value gives perform_msa = true, a map holding allEdges,
\* onlyFirstEdge or nospecific with any string value gives interactions All,
\* MostEnergetic or NoSpecific, and of several such keys the last in map
\* order determines interactions.
FlagsByPresence ==
    (pc = "done" /\ job[1] = "decode" /\ IsOk(out)) =>
        /\ HasKey(job[2], "msa") => out[2].perform_msa
        /\ \A i \in 1..Len(job[2]) :
               (/\ job[2][i][1] \in InteractionKeys
                /\ \A j \in (i + 1)..Len(job[2]) : job[2][j][1] \notin InteractionKeys)
                   => out[2].interactions = InteractionOfKey(job[2][i][1])

FlagsByPresenceWitness ==
    /\ pc = "done"
    /\ job = <<"decode", << <<"allEdges", StrTrue>>, <<"msa", StrFalse>>,
                           <<"nospecific", StrFalse>> >> >>
    /\ IsOk(out)
    /\ out[2].perform_msa
    /\ out[2].interactions = "NoSpecific"

=============================================================================
